---- MODULE Spec2Model ----
(***************************************************************************)
(* A model of smallbot's agent turn loop (runAgent) and of the message     *)
(* handler that drives it (handleMessage with config.streaming = false,    *)
(* the path that calls runAgent), under the specification Spec; and a      *)
(* model of how one request's answer is delivered to the chat (the         *)
(* streaming renderer and the chunked replies of handleMessage), under     *)
(* the specification RenderSpec. SessionSpec models the session store and  *)
(* the handlers of all users, LiveSpec the run under the scheduling of the *)
(* code, CronSpec the cron tools and MemorySpec the memory tools.          *)
(*                                                                         *)
(* The language model, the tools and the chat transport are external: the  *)
(* model draws their behaviour nondeterministically from small sets (the   *)
(* events a provider stream yields, whether a tool call validates, how an  *)
(* execute ends, whether a transport call is accepted).                    *)
(***************************************************************************)
EXTENDS Integers, Sequences, FiniteSets, TLC

\* ---------------------------------------------------------------- bounds
MaxTurns == 2        \* model invocations of one run the model explores
MaxCalls == 2        \* tool calls the model requests in one run
MaxDeltas == 2       \* text deltas the model streams in one run
MaxRequests == 1     \* requests handled one after the other

\* ------------------------------------------------------- external inputs
\* text_delta payloads a provider stream may carry
Deltas == {"a", "b"}
\* names in the handler table (toolHandlers) of the run
ToolNames == {"bash"}
\* a name the model may request that no handler is registered for
UnknownNames == {"nope"}
\* the tool calls a model may request: a registered tool with arguments that
\* pass or fail its schema, or an unregistered name (never validated)
CallKinds ==
  {[name |-> n, valid |-> v] : n \in ToolNames, v \in BOOLEAN}
    \cup {[name |-> n, valid |-> FALSE] : n \in UnknownNames}
\* how an awaited handler.execute may end: it resolves, it throws an Error
\* object, or it throws a value without properties (null / undefined)
ExecOutcomes == {"ok", "throwsError", "throwsNullish"}

VARIABLES
  \* --- runAgent (src/unnamed/part_003)
  pc,          \* position of the run
  context,     \* context.messages, the working copy of the history
  turnCount,   \* turnCount
  text,        \* text of the current turn
  toolCalls,   \* toolCalls of the current turn
  tcIdx,       \* position of the for..of loop over toolCalls (1-based)
  inflight,    \* executes not settled yet: [pos, tc], a position of toolCalls and its call
  retval,      \* value runAgent returned
  nextId,      \* provider side: the next tool-call id it hands out
  deltasSeen,  \* provider side: the text deltas it has streamed in this run
  \* --- handleMessage (src/src/index.ts) and the session (src/src/sessions.ts)
  hpc,         \* position of the handler
  session,     \* session.messages of the user
  typing,      \* the typing interval is running
  sent,        \* transport calls of the current request, in order
  reqCount,    \* requests started so far
  \* --- history variables (observations only, no action reads them)
  turnDeltas,  \* the text_delta payloads of the current turn, in order
  turnCtx,     \* context as it was when the current turn started
  execLog,     \* positions whose execute was started this turn, in order
  outLog,      \* how each settled execute of this turn ended, in order
  openStreams, \* provider streams opened and not yet ended
  callerMsgs,  \* the array handed to runAgent, as it was at the call
  reqSession,  \* session.messages as it was when the current request arrived
  failure,     \* what made the request fail: "none", "model", "tool", "transport"
  \* --- delivery of one request (src/src/index.ts 201-349), RenderSpec only
  streaming,   \* config.streaming
  rpc,         \* position of the handler inside its try block
  fullText,    \* fullText
  currentToolIndicator, \* currentToolIndicator
  lastEditTime,         \* lastEditTime
  lastEditedText,       \* lastEditedText
  now,         \* the clock, Date.now()
  view,        \* the text the placeholder message shows in the chat
  response,    \* response
  chunkAt,     \* i of the chunk loops
  failures,    \* transport calls that failed in this request
  messageId,   \* messageId, the id of the placeholder (0 before it is created)
  pending,     \* editMessageText calls not settled yet: [call, sentAt, text, at]
  \* --- history variables of the delivery (observations only)
  events,      \* the stream events consumed so far, in order
  editCalls,   \* the editMessage calls made so far, in order
  \* --- the session store and the handlers of all users, SessionSpec only
  sessions,    \* the Map sessions: user id -> the session object it holds (0: no entry)
  heap,        \* the session objects created so far: [messages, lastActivity]
  clock,       \* Date.now(), in milliseconds since the process started
  currentModelId, \* currentModelId of agent.ts
  currentProvider, \* currentProvider of agent.ts
  handlers,    \* the updates dispatched so far and how far the handler of each is
  \* --- the cron tools (src/src/memory.ts 122-292), CronSpec only
  jobs,        \* jobs, the job table: [id, no, enabled], no the serial of the job object
  scheduledTasks, \* the Map scheduledTasks: job id -> the task it holds (0: no entry)
  running,     \* the node-cron tasks scheduled and not stopped, each named by its job's serial
  cronsFile,   \* crons.json: the job table as saveJobs wrote it last
  cronCalls,   \* create_cron calls made so far
  \* --- the memory tools (src/src/memory.ts 1-120), MemorySpec only
  memoryDir,   \* .smallbot/memory exists
  memFiles,    \* the memory file of each user: [exists, text]
  memories,    \* what loadMemories returned last for each user
  saving,      \* each caller of save_memory: "idle", or "awaiting" its execute
  wallClock,   \* new Date(), in milliseconds
  saveLog      \* history: the save_memory executions so far, in the order they ran

vars == <<pc, context, turnCount, text, toolCalls, tcIdx, inflight, retval,
          nextId, deltasSeen, hpc, session, typing, sent, reqCount, turnDeltas,
          turnCtx, execLog, outLog, openStreams, callerMsgs, reqSession, failure,
          streaming, rpc, fullText, currentToolIndicator, lastEditTime,
          lastEditedText, now, view, response, chunkAt, failures, messageId,
          pending, events, editCalls, sessions, heap, clock, currentModelId,
          currentProvider, handlers, jobs, scheduledTasks, running, cronsFile,
          cronCalls, memoryDir, memFiles, memories, saving, wallClock, saveLog>>

\* the variables of the delivery, which no step of Spec changes
renderVars == <<streaming, rpc, fullText, currentToolIndicator, lastEditTime,
                lastEditedText, now, view, response, chunkAt, failures, messageId,
                pending, events, editCalls>>

\* the variables of the turn loop and of the handler that no step of
\* RenderSpec changes
agentVars == <<pc, context, turnCount, text, toolCalls, tcIdx, inflight, retval,
               nextId, deltasSeen, hpc, reqCount, turnDeltas, turnCtx, execLog,
               outLog, openStreams, callerMsgs, reqSession>>

\* the session store and the handlers of all users, which no step of Spec
\* or RenderSpec changes
storeVars == <<sessions, heap, clock, currentModelId, currentProvider, handlers>>

\* the job table and the tasks of the cron tools
cronVars == <<jobs, scheduledTasks, running, cronsFile, cronCalls>>

\* the memory files and the callers of the memory tools
memVars == <<memoryDir, memFiles, memories, saving, wallClock, saveLog>>

\* the state of the tools, which no step of a request, of the delivery or of
\* the session store changes
toolVars == <<cronVars, memVars>>

\* the variables of the handler, which no step of runAgent changes
handlerVars == <<hpc, session, typing, sent, reqCount, reqSession>>

\* the per-turn locals and observations
turnVars == <<turnCount, text, toolCalls, turnDeltas, turnCtx>>

\* ------------------------------------------------------------- messages
\* A Message: role, text content, the tool calls an assistant message
\* carries, and the toolResult fields.
Msg(role, txt, calls, id, name, err) ==
  [role |-> role, text |-> txt, toolCalls |-> calls,
   toolCallId |-> id, toolName |-> name, isError |-> err]

\* the user message handleMessage builds for request n
UserMsg(n) == Msg("user", "q" \o ToString(n), <<>>, 0, "", FALSE)

\* the assistantMessage s.result() resolves to: the full text and the
\* tool calls the stream emitted
AssistantMessage(txt, calls) == Msg("assistant", txt, calls, 0, "", FALSE)

\* mutant of UnknownToolResult: the result is pushed without the call's id
UnknownToolResultNoId(tc) == Msg("toolResult", "Unknown tool", <<>>, 0, tc.name, TRUE)

\* the three toolResult messages runAgent pushes
UnknownToolResult(tc) == Msg("toolResult", "Unknown tool", <<>>, tc.id, tc.name, TRUE)

SuccessToolResult(tc) == Msg("toolResult", "content", <<>>, tc.id, tc.name, FALSE)

ErrorToolResult(tc) == Msg("toolResult", "Error", <<>>, tc.id, tc.name, TRUE)

\* the assistant message handleMessage appends to the session
AssistantMsg(txt) == Msg("assistant", txt, <<>>, 0, "", FALSE)

\* ------------------------------------------------------------- runAgent
\* context.messages = [...messages]: a copy of the caller's array
CopyMessages(messages) == messages

\* mutant of CallerArray: context.messages is the caller's array itself
CallerArrayAliased(messages, working) == working

\* the caller's array after a push to context.messages: the working history
\* is a new array ([...messages]), so the push does not reach the caller's
CallerArray(messages, working) == messages

\* mutant of FreshText: text is declared outside the loop and never cleared
StaleText(old) == old

\* let text = "" at the top of every turn (old: the previous turn's text)
FreshText(old) == ""

\* toolHandlers.get(tc.name) finds a handler
HasHandler(name) == name \in ToolNames

\* mutant of Validates: the arguments are handed to execute unvalidated
ValidatesAlways(tc) == TRUE

\* validateToolCall(toolDefs, tc) returns (does not throw)
Validates(tc) == tc.valid

\* mutant of PushAssistantMessage: the message is pushed a second time
PushAssistantMessageTwice(messages, m) == Append(Append(messages, m), m)

\* context.messages.push(assistantMessage)
PushAssistantMessage(messages, m) == Append(messages, m)

\* mutant of IsTerminalTurn: a turn without tool calls does not end the run
IsTerminalTurnNever(calls) == FALSE

\* if (toolCalls.length === 0) return text
IsTerminalTurn(calls) == Len(calls) = 0

\* mutant of ToolLoopDone: the loop stops one call early
ToolLoopDoneEarly(i, calls) == i >= Len(calls)

\* the for..of loop over toolCalls has run out
ToolLoopDone(i, calls) == i > Len(calls)

\* the position the for..of loop takes after call i
NextCall(i) == i + 1

\* mutant of AfterExecuteStarted: execute is not awaited, the loop goes on
AfterExecuteNotAwaited == "tools"

\* where the run stands once execute of a call has been started:
\* `await handler.execute(...)` suspends the loop until it settles
AfterExecuteStarted == "exec"

\* the catch block of the tool call: it reads err.message and err.stack and
\* pushes an error result; reading a property of null / undefined throws a
\* TypeError out of the catch block
CatchPushesResult(outcome) == outcome # "throwsNullish"

\* while (true) { turnCount++; text = ""; toolCalls = []; s = stream(model, context)
\* (the code has no limit on turnCount: MaxTurns only bounds the exploration)
TurnStart ==
  /\ pc = "loop"
  /\ turnCount < MaxTurns
  /\ turnCount' = turnCount + 1
  /\ text' = FreshText(text)
  /\ toolCalls' = <<>>
  /\ pc' = "stream"
  /\ openStreams' = openStreams + 1
  /\ turnDeltas' = <<>>
  /\ turnCtx' = context
  /\ execLog' = <<>>
  /\ outLog' = <<>>
  /\ UNCHANGED <<context, tcIdx, inflight, retval, nextId, deltasSeen, callerMsgs, failure>>
  /\ UNCHANGED handlerVars
  /\ UNCHANGED <<renderVars, storeVars, toolVars>>

\* for await (event of s): event.type === "text_delta"
StreamTextDelta ==
  /\ pc = "stream"
  /\ deltasSeen < MaxDeltas
  /\ deltasSeen' = deltasSeen + 1
  /\ \E d \in Deltas :
       /\ text' = text \o d
       /\ turnDeltas' = Append(turnDeltas, d)
  /\ UNCHANGED <<pc, context, turnCount, toolCalls, tcIdx, inflight, retval,
                 nextId, turnCtx, execLog, outLog, openStreams, callerMsgs, failure>>
  /\ UNCHANGED handlerVars
  /\ UNCHANGED <<renderVars, storeVars, toolVars>>

\* for await (event of s): event.type === "toolcall_end"
StreamToolCallEnd ==
  /\ pc = "stream"
  /\ nextId <= MaxCalls
  /\ \E k \in CallKinds :
       toolCalls' = Append(toolCalls, [id |-> nextId, name |-> k.name, valid |-> k.valid])
  /\ nextId' = nextId + 1
  /\ UNCHANGED <<deltasSeen, pc, context, turnCount, text, tcIdx, inflight, retval,
                 turnDeltas, turnCtx, execLog, outLog, openStreams, callerMsgs, failure>>
  /\ UNCHANGED handlerVars
  /\ UNCHANGED <<renderVars, storeVars, toolVars>>

\* for await (event of s): an event of any other type changes nothing
\* (start, text_end, toolcall_delta, done, ...: the state stays as it is)
StreamOtherEvent ==
  /\ pc = "stream"
  /\ UNCHANGED vars

\* the stream is exhausted: the for await loop ends
StreamEnd ==
  /\ pc = "stream"
  /\ pc' = "result"
  /\ openStreams' = openStreams - 1
  /\ UNCHANGED <<context, tcIdx, inflight, retval, nextId, deltasSeen, execLog, outLog,
                 callerMsgs, failure>>
  /\ UNCHANGED turnVars
  /\ UNCHANGED handlerVars
  /\ UNCHANGED <<renderVars, storeVars, toolVars>>

\* the provider fails: the iteration, or s.result(), rejects and runAgent throws
StreamFails ==
  /\ pc \in {"stream", "result"}
  /\ pc' = "threw"
  /\ failure' = "model"
  /\ openStreams' = IF pc = "stream" THEN openStreams - 1 ELSE openStreams
  /\ UNCHANGED <<context, tcIdx, inflight, retval, nextId, deltasSeen, execLog, outLog,
                 callerMsgs>>
  /\ UNCHANGED turnVars
  /\ UNCHANGED handlerVars
  /\ UNCHANGED <<renderVars, storeVars, toolVars>>

\* assistantMessage = await s.result(); context.messages.push(assistantMessage);
\* if (toolCalls.length === 0) return text
PushAssistant ==
  /\ pc = "result"
  /\ context' = PushAssistantMessage(context, AssistantMessage(text, toolCalls))
  /\ IF IsTerminalTurn(toolCalls)
       THEN /\ pc' = "returned"
            /\ retval' = text
            /\ tcIdx' = tcIdx
       ELSE /\ pc' = "tools"
            /\ tcIdx' = 1
            /\ retval' = retval
  /\ UNCHANGED <<inflight, nextId, deltasSeen, execLog, outLog, openStreams, callerMsgs, failure>>
  /\ UNCHANGED turnVars
  /\ session' = CallerArray(session, context')
  /\ UNCHANGED <<hpc, typing, sent, reqCount, reqSession>>
  /\ UNCHANGED <<renderVars, storeVars, toolVars>>

\* for (const tc of toolCalls): no handler for tc.name
ToolUnknown ==
  /\ pc = "tools"
  /\ ~ToolLoopDone(tcIdx, toolCalls)
  /\ ~HasHandler(toolCalls[tcIdx].name)
  /\ context' = Append(context, UnknownToolResult(toolCalls[tcIdx]))
  /\ tcIdx' = NextCall(tcIdx)
  /\ UNCHANGED <<pc, inflight, retval, nextId, deltasSeen, execLog, outLog, openStreams,
                 callerMsgs, failure>>
  /\ UNCHANGED turnVars
  /\ session' = CallerArray(session, context')
  /\ UNCHANGED <<hpc, typing, sent, reqCount, reqSession>>
  /\ UNCHANGED <<renderVars, storeVars, toolVars>>

\* for (const tc of toolCalls): validateToolCall throws, the catch block
\* pushes the error result
ToolInvalid ==
  /\ pc = "tools"
  /\ ~ToolLoopDone(tcIdx, toolCalls)
  /\ HasHandler(toolCalls[tcIdx].name)
  /\ ~Validates(toolCalls[tcIdx])
  /\ context' = Append(context, ErrorToolResult(toolCalls[tcIdx]))
  /\ tcIdx' = NextCall(tcIdx)
  /\ UNCHANGED <<pc, inflight, retval, nextId, deltasSeen, execLog, outLog, openStreams,
                 callerMsgs, failure>>
  /\ UNCHANGED turnVars
  /\ session' = CallerArray(session, context')
  /\ UNCHANGED <<hpc, typing, sent, reqCount, reqSession>>
  /\ UNCHANGED <<renderVars, storeVars, toolVars>>

\* for (const tc of toolCalls): handler.execute(tc.id, validated) is called
\* and awaited
ToolExecute ==
  /\ pc = "tools"
  /\ ~ToolLoopDone(tcIdx, toolCalls)
  /\ HasHandler(toolCalls[tcIdx].name)
  /\ Validates(toolCalls[tcIdx])
  /\ inflight' = inflight \cup {[pos |-> tcIdx, tc |-> toolCalls[tcIdx]]}
  /\ execLog' = Append(execLog, tcIdx)
  /\ pc' = AfterExecuteStarted
  /\ tcIdx' = IF AfterExecuteStarted = "exec" THEN tcIdx ELSE NextCall(tcIdx)
  /\ UNCHANGED <<context, retval, nextId, deltasSeen, outLog, openStreams, callerMsgs, failure>>
  /\ UNCHANGED turnVars
  /\ UNCHANGED handlerVars
  /\ UNCHANGED <<renderVars, storeVars, toolVars>>

\* the awaited execute settles: the result is pushed, or the catch block runs
ExecuteSettles ==
  /\ pc \notin {"returned", "threw", "idle"}
  /\ \E e \in inflight, outcome \in ExecOutcomes :
       /\ inflight' = inflight \ {e}
       /\ outLog' = Append(outLog, [call |-> e.pos, outcome |-> outcome])
       /\ IF outcome = "ok" \/ CatchPushesResult(outcome)
            THEN /\ context' = Append(context,
                                  IF outcome = "ok"
                                    THEN SuccessToolResult(e.tc)
                                    ELSE ErrorToolResult(e.tc))
                 /\ pc' = IF pc = "exec" THEN "tools" ELSE pc
                 /\ tcIdx' = IF pc = "exec" THEN NextCall(tcIdx) ELSE tcIdx
                 /\ failure' = failure
            ELSE /\ context' = context
                 /\ pc' = "threw"
                 /\ tcIdx' = tcIdx
                 /\ failure' = "tool"
  /\ UNCHANGED <<retval, nextId, deltasSeen, execLog, openStreams, callerMsgs>>
  /\ UNCHANGED turnVars
  /\ session' = CallerArray(session, context')
  /\ UNCHANGED <<hpc, typing, sent, reqCount, reqSession>>
  /\ UNCHANGED <<renderVars, storeVars, toolVars>>

\* the for..of loop is over: back to the top of while (true)
ToolsDone ==
  /\ pc = "tools"
  /\ ToolLoopDone(tcIdx, toolCalls)
  /\ pc' = "loop"
  /\ UNCHANGED <<context, tcIdx, inflight, retval, nextId, deltasSeen, execLog, outLog,
                 openStreams, callerMsgs, failure>>
  /\ UNCHANGED turnVars
  /\ UNCHANGED handlerVars
  /\ UNCHANGED <<renderVars, storeVars, toolVars>>

\* -------------------------------------------------------- handleMessage
\* a transport call (ctx.reply) is accepted or fails
ReplyOutcomes == {"ok", "fails"}

\* the locals of a finished run are dead: the model forgets them
ForgetRun ==
  /\ pc' = "idle"
  /\ context' = <<>>
  /\ turnCount' = 0
  /\ text' = ""
  /\ toolCalls' = <<>>
  /\ tcIdx' = 1
  /\ inflight' = {}
  /\ retval' = ""
  /\ nextId' = 1
  /\ deltasSeen' = 0
  /\ turnDeltas' = <<>>
  /\ turnCtx' = <<>>
  /\ execLog' = <<>>
  /\ outLog' = <<>>
  /\ openStreams' = 0
  /\ callerMsgs' = <<>>

\* mutant of SessionAfterCatch: the catch block rolls the user message back
SessionRolledBack(messages) == SubSeq(messages, 1, Len(messages) - 1)

\* the session after the catch block: the catch block does not touch it
SessionAfterCatch(messages) == messages

\* handleMessage up to the call of runAgent: typing starts, the session is
\* fetched, the prompt is built (getPrompt may throw, before the try block),
\* the user message is pushed, runAgent is called with session.messages
HandleMessage ==
  /\ hpc = "idle"
  /\ reqCount < MaxRequests
  /\ reqCount' = reqCount + 1
  /\ typing' = TRUE
  /\ sent' = <<>>
  /\ reqSession' = session
  /\ failure' = "none"
  /\ \E promptOk \in BOOLEAN :
       IF promptOk
         THEN /\ session' = Append(session, UserMsg(reqCount + 1))
              /\ hpc' = "agent"
              /\ pc' = "loop"
              /\ context' = CopyMessages(session')
              /\ callerMsgs' = session'
         ELSE /\ hpc' = "crashed"
              /\ UNCHANGED <<session, pc, context, callerMsgs>>
  /\ UNCHANGED <<tcIdx, inflight, retval, nextId, deltasSeen, execLog, outLog, openStreams>>
  /\ UNCHANGED turnVars
  /\ UNCHANGED <<renderVars, storeVars, toolVars>>

\* mutant of SessionAfterResponse: the session takes over the working history
\* of the run
SessionTakesRun(messages, txt, working) == working

\* const assistantMsg = { role: "assistant", content: [{ type: "text", text:
\* response }], ... }; session.messages.push(assistantMsg): the session gets
\* the answer text alone, nothing of the run's working history
SessionAfterResponse(messages, txt, working) == Append(messages, AssistantMsg(txt))

\* runAgent returned: stopTyping, ctx.reply(response), then the assistant
\* message is pushed to the session; a failing reply enters the catch block
\* (the texts of the model are far shorter than 4096 characters: one reply)
HandleResponse ==
  /\ hpc = "agent"
  /\ pc = "returned"
  /\ typing' = FALSE
  /\ \E o \in ReplyOutcomes :
       /\ sent' = Append(sent, [kind |-> "response", text |-> retval, outcome |-> o])
       /\ IF o = "ok"
            THEN /\ session' = SessionAfterResponse(session, retval, context)
                 /\ hpc' = "idle"
            ELSE /\ session' = session
                 /\ hpc' = "catch"
  /\ ForgetRun
  /\ UNCHANGED <<reqCount, reqSession, failure>>
  /\ UNCHANGED <<renderVars, storeVars, toolVars>>

\* runAgent threw: the catch block is entered
HandleAgentError ==
  /\ hpc = "agent"
  /\ pc = "threw"
  /\ hpc' = "catch"
  /\ ForgetRun
  /\ UNCHANGED <<session, typing, sent, reqCount, reqSession, failure>>
  /\ UNCHANGED <<renderVars, storeVars, toolVars>>

\* catch (err): stopTyping, ctx.reply(`Error: ...`); if that reply fails
\* too, handleMessage rejects
HandleCatch ==
  /\ hpc = "catch"
  /\ typing' = FALSE
  /\ session' = SessionAfterCatch(session)
  /\ \E o \in ReplyOutcomes :
       /\ sent' = Append(sent, [kind |-> "error", text |-> "Error", outcome |-> o])
       /\ hpc' = IF o = "ok" THEN "idle" ELSE "crashed"
  /\ UNCHANGED <<pc, context, tcIdx, inflight, retval, nextId, deltasSeen, execLog, outLog,
                 openStreams, callerMsgs, failure, reqCount, reqSession>>
  /\ UNCHANGED turnVars
  /\ UNCHANGED <<renderVars, storeVars, toolVars>>

\* ---------------------------------------------------------------- system
\* the users of the allow-list
Users == {1, 2}

\* senders of updates that are not on the allow-list
Strangers == {3}

\* everyone who may send an update to the bot
Senders == Users \cup Strangers

\* let currentProvider = process.env.MODEL_PROVIDER || "anthropic"
DefaultProvider == "anthropic"

\* let currentModelId = process.env.MODEL_ID || "claude-sonnet-4-5-20250929"
DefaultModelId == "claude-sonnet-4-5-20250929"

\* the session store as the process starts: const sessions = new Map(), the
\* model of the environment, no update dispatched yet
StoreIdle ==
  /\ sessions = [u \in Senders |-> 0]
  /\ heap = <<>>
  /\ clock = 0
  /\ currentModelId = DefaultModelId
  /\ currentProvider = DefaultProvider
  /\ handlers = <<>>

\* the job ids Math.random().toString(36).slice(2, 8) may yield
Ids == {"a", "b"}

\* the callers that hold a save_memory tool: the request of a user (index.ts
\* 189) and the cron runs started from that user's requests (index.ts 190-192)
MemCallers == {"chat1", "cron1", "chat2"}

\* the userId createMemoryTools was called with
CallerUser(p) == IF p = "chat2" THEN 2 ELSE 1

\* a path without a file
NoFile == [exists |-> FALSE, text |-> ""]

\* the tools as the process starts on a fresh installation: let jobs = [] and
\* loadJobs() without crons.json, no task scheduled, no memory directory
ToolsIdle ==
  /\ jobs = <<>>
  /\ scheduledTasks = [i \in Ids |-> 0]
  /\ running = {}
  /\ cronsFile = <<>>
  /\ cronCalls = 0
  /\ memoryDir = FALSE
  /\ memFiles = [u \in Users |-> NoFile]
  /\ memories = [u \in Users |-> ""]
  /\ saving = [p \in MemCallers |-> "idle"]
  /\ wallClock = 0
  /\ saveLog = <<>>

\* the delivery variables while no delivery is modelled
RenderIdle ==
  /\ streaming = FALSE
  /\ rpc = "idle"
  /\ fullText = ""
  /\ currentToolIndicator = ""
  /\ lastEditTime = 0
  /\ lastEditedText = ""
  /\ now = 0
  /\ view = ""
  /\ response = ""
  /\ chunkAt = 0
  /\ failures = 0
  /\ messageId = 0
  /\ pending = <<>>
  /\ events = <<>>
  /\ editCalls = <<>>

Init ==
  /\ pc = "idle"
  /\ context = <<>>
  /\ turnCount = 0
  /\ text = ""
  /\ toolCalls = <<>>
  /\ tcIdx = 1
  /\ inflight = {}
  /\ retval = ""
  /\ nextId = 1
  /\ deltasSeen = 0
  /\ hpc = "idle"
  /\ session = <<>>
  /\ typing = FALSE
  /\ sent = <<>>
  /\ reqCount = 0
  /\ turnDeltas = <<>>
  /\ turnCtx = <<>>
  /\ execLog = <<>>
  /\ outLog = <<>>
  /\ openStreams = 0
  /\ callerMsgs = <<>>
  /\ reqSession = <<>>
  /\ failure = "none"
  /\ RenderIdle
  /\ StoreIdle
  /\ ToolsIdle

Next ==
  \/ HandleMessage
  \/ TurnStart
  \/ StreamTextDelta
  \/ StreamToolCallEnd
  \/ StreamOtherEvent
  \/ StreamEnd
  \/ StreamFails
  \/ PushAssistant
  \/ ToolUnknown
  \/ ToolInvalid
  \/ ToolExecute
  \/ ExecuteSettles
  \/ ToolsDone
  \/ HandleResponse
  \/ HandleAgentError
  \/ HandleCatch

Spec == Init /\ [][Next]_vars

\* ------------------------------------------------------------ properties
\* the concatenation of a sequence of text deltas
RECURSIVE Concat(_)
Concat(ds) == IF ds = <<>> THEN "" ELSE Head(ds) \o Concat(Tail(ds))

\* the toolResult messages the current turn has appended so far (the
\* messages after the turn's assistant message)
TurnResults == SubSeq(context, Len(turnCtx) + 2, Len(context))

\* message m is a toolResult carrying the id and the tool name of call tc
ResultAnswers(m, tc) ==
  /\ m.role = "toolResult"
  /\ m.toolCallId = tc.id
  /\ m.toolName = tc.name

\* the current turn's stream has ended and its assistant message is pushed
TurnInToolPhase ==
  \/ pc \in {"tools", "exec"}
  \/ pc = "loop" /\ turnCount >= 1
  \/ pc = "threw" /\ failure = "tool"

\* the tool calls of the current turn are dealt with: the run goes back to
\* invoke the model, or it has ended in the tool loop
TurnToolsOver ==
  \/ pc = "loop" /\ turnCount >= 1
  \/ pc = "threw" /\ failure = "tool"

\* the positions of toolCalls whose execute was started this turn
Executed == {execLog[k] : k \in 1..Len(execLog)}

\* the position of the last assistant message of a history (0: none)
LastAssistant(messages) ==
  IF \E j \in 1..Len(messages) : messages[j].role = "assistant"
    THEN CHOOSE j \in 1..Len(messages) :
           /\ messages[j].role = "assistant"
           /\ \A m \in (j + 1)..Len(messages) : messages[m].role # "assistant"
    ELSE 0

\* C1: once the tool calls of a turn are dealt with, the turn has appended
\* exactly one toolResult per tool call, the i-th result carrying the id and
\* the tool name of the i-th call received. (The claim; the code breaks it
\* when execute throws null / undefined.)
C1_OneResultPerCallInOrder ==
  TurnToolsOver =>
    /\ Len(TurnResults) = Len(toolCalls)
    /\ \A i \in 1..Len(toolCalls) : ResultAnswers(TurnResults[i], toolCalls[i])

\* C2: a turn without tool calls makes runAgent return exactly the
\* concatenation of that turn's text deltas, and the turn appends the
\* assistant message and nothing else; a turn with tool calls does not return.
C2_TerminalTurnReturnsItsText ==
  /\ pc = "returned" =>
       /\ toolCalls = <<>>
       /\ retval = Concat(turnDeltas)
       /\ Len(context) = Len(turnCtx) + 1
       /\ SubSeq(context, 1, Len(turnCtx)) = turnCtx
       /\ context[Len(context)].role = "assistant"
  /\ pc \in {"tools", "exec"} => toolCalls # <<>>

\* C2 witness: a second turn, after a tool-calling one, returns the text of
\* its two different deltas
C2_Witness ==
  /\ pc = "returned"
  /\ turnCount = 2
  /\ Len(turnDeltas) = 2
  /\ turnDeltas[1] # turnDeltas[2]

\* C3: every toolResult of the working history follows an assistant message
\* with only toolResults in between (no user or other assistant message),
\* and its toolCallId is the id of one of that assistant message's tool calls.
C3_ToolResultsFollowTheirAssistant ==
  \A k \in 1..Len(context) :
    context[k].role = "toolResult" =>
      \E j \in 1..(k - 1) :
        /\ context[j].role = "assistant"
        /\ \A m \in (j + 1)..(k - 1) : context[m].role = "toolResult"
        /\ \E c \in 1..Len(context[j].toolCalls) :
             context[j].toolCalls[c].id = context[k].toolCallId

\* C3 witness: the second tool-calling turn of a run has appended its
\* result, after the assistant message and the result of the first turn
C3_Witness ==
  /\ turnCount = 2
  /\ Len(TurnResults) = 1
  /\ TurnResults[1].role = "toolResult"
  /\ \E k \in 1..Len(turnCtx) : turnCtx[k].role = "toolResult"

\* C4: a call that names no registered tool, or whose arguments fail
\* validation, never has its execute started, and once the loop has passed
\* it, the result at its position is error-flagged and carries its id.
C4_BadCallsAnsweredWithoutExecute ==
  TurnInToolPhase =>
    \A i \in 1..Len(toolCalls) :
      (toolCalls[i].name \notin ToolNames \/ ~toolCalls[i].valid) =>
        /\ i \notin Executed
        /\ i < tcIdx =>
             /\ i <= Len(TurnResults)
             /\ TurnResults[i].isError
             /\ ResultAnswers(TurnResults[i], toolCalls[i])

\* C4 witness: a turn with an unknown tool and an invalid call, both passed
C4_Witness ==
  /\ pc = "loop"
  /\ Len(toolCalls) = 2
  /\ toolCalls[1].name \notin ToolNames
  /\ toolCalls[2].name \in ToolNames
  /\ ~toolCalls[2].valid
  /\ Len(TurnResults) = 2

\* C5: an execute that throws never makes runAgent throw, and its failure
\* is recorded as an error-flagged result at the call's position. (The
\* claim; the code breaks it when the thrown value is null / undefined.)
C5_ToolFailureNeverAborts ==
  /\ ~(pc = "threw" /\ failure = "tool")
  /\ TurnInToolPhase =>
       \A k \in 1..Len(outLog) :
         outLog[k].outcome # "ok" =>
           /\ outLog[k].call <= Len(TurnResults)
           /\ TurnResults[outLog[k].call].isError

\* C6: while the stream of a turn is open or its result is pending, the turn
\* has appended nothing; afterwards the history is the turn's start history,
\* then the one assistant message with the turn's tool calls, then only
\* toolResults.
C6_AssistantPushedOnceAfterStream ==
  /\ (pc \in {"stream", "result"} \/ openStreams > 0) => context = turnCtx
  /\ (pc = "threw" /\ failure = "model") => context = turnCtx
  /\ (TurnInToolPhase \/ pc = "returned") =>
       /\ Len(context) > Len(turnCtx)
       /\ SubSeq(context, 1, Len(turnCtx)) = turnCtx
       /\ context[Len(turnCtx) + 1].role = "assistant"
       /\ context[Len(turnCtx) + 1].toolCalls = toolCalls
       /\ \A k \in (Len(turnCtx) + 2)..Len(context) : context[k].role = "toolResult"

\* C6 witness: in a second turn the assistant message is pushed, a tool is
\* executing and no result of the turn is appended yet
C6_Witness ==
  /\ pc = "exec"
  /\ turnCount = 2
  /\ Len(context) = Len(turnCtx) + 1

\* C7: at most one execute is unsettled at any time, the loop is suspended
\* while it is, and the executes of a turn start in the order of the calls.
C7_OneExecutionAtATimeInOrder ==
  /\ Cardinality(inflight) <= 1
  /\ inflight # {} => pc = "exec"
  /\ \A k \in 1..(Len(execLog) - 1) : execLog[k] < execLog[k + 1]

\* C7 witness: the second execute of a turn is in progress
C7_Witness ==
  /\ pc = "exec"
  /\ Len(execLog) = 2
  /\ Cardinality(inflight) = 1

\* C8: at most one provider stream is open, and while the stream of a turn
\* after the first is open, no execute is unsettled and the history ends
\* with the previous assistant message followed by one result per tool call
\* of it, in order.
C8_NextInvocationAfterAllResults ==
  /\ openStreams <= 1
  /\ (openStreams > 0 /\ turnCount > 1) =>
       LET j == LastAssistant(context) IN
         /\ inflight = {}
         /\ j > 0
         /\ Len(context) - j = Len(context[j].toolCalls)
         /\ \A i \in 1..Len(context[j].toolCalls) :
              /\ j + i <= Len(context)
              /\ ResultAnswers(context[j + i], context[j].toolCalls[i])

\* C8 witness: the stream of turn 2 is open after a turn with two tool calls
C8_Witness ==
  /\ pc = "stream"
  /\ openStreams = 1
  /\ turnCount = 2
  /\ LastAssistant(context) > 0
  /\ Len(context[LastAssistant(context)].toolCalls) = 2

\* C9: a maximum-turn guard ends the loop: the run never goes back to invoke
\* the model once it has made MaxTurns invocations. (The claim; the code has
\* no guard, so this fails for every value of MaxTurns.)
C9_MaxTurnGuard == pc = "loop" => turnCount < MaxTurns

\* C10: in a request whose model stream failed, the session is the session
\* the request found plus its user message (no rollback, no assistant
\* message), and the handler issues exactly one transport send, the error
\* notice.
C10_ModelFailureKeepsUserMessage ==
  failure = "model" =>
    /\ session = Append(reqSession, UserMsg(reqCount))
    /\ hpc \in {"agent", "catch"} => sent = <<>>
    /\ hpc \in {"idle", "crashed"} => (Len(sent) = 1 /\ sent[1].kind = "error")
    /\ hpc \in {"agent", "catch", "idle", "crashed"}

\* C10 witness: a request whose model stream failed has ended with the
\* error notice delivered
C10_Witness ==
  /\ failure = "model"
  /\ hpc = "idle"
  /\ reqCount >= 1
  /\ session[Len(session)] = UserMsg(reqCount)
  /\ Len(sent) = 1
  /\ sent[1].outcome = "ok"

\* C11: while a run is in progress or has ended (returned or thrown), the
\* caller's array is what it was at the call, and the working history is
\* that array followed only by the assistant and toolResult messages the
\* run appended.
C11_CallerHistoryUntouched ==
  pc # "idle" =>
    /\ session = callerMsgs
    /\ Len(context) >= Len(callerMsgs)
    /\ SubSeq(context, 1, Len(callerMsgs)) = callerMsgs
    /\ \A k \in (Len(callerMsgs) + 1)..Len(context) :
         context[k].role \in {"assistant", "toolResult"}

\* C11 witness: a run has thrown after it appended an assistant message and
\* a toolResult to its working history
C11_Witness ==
  /\ pc = "threw"
  /\ failure = "tool"
  /\ Len(context) >= Len(callerMsgs) + 2
  /\ Len(callerMsgs) >= 1

\* ==================================================== delivery (RenderSpec)
\* One request from the top of the try block of handleMessage to its end:
\* the streaming renderer (placeholder, throttled edits, final edit, overflow
\* chunks) or the plain replies, then the assistant message.

\* ---------------------------------------------------------------- bounds
MaxEvents == 3       \* stream events consumed in one request
MaxFailures == 1     \* transport calls that fail in one request

\* ------------------------------------------------------ program constants
THROTTLE_MS == 500
MIN_CHARS_CHANGE == 20
\* the length above which editMessage cuts the text it shows
DisplayLimit == 4000
\* the length above which the answer is sent in chunks, and the chunk size
MessageLimit == 4096

\* the marker appended to a cut text
TruncationMarker == "\n\n[...truncated]"

\* the text of the placeholder message, and of an edit of the empty text
Placeholder == "..."

\* ------------------------------------------------------- external inputs
\* a text of n characters whose content depends on the position
Ten == "0123456789"

Hundred == Ten \o Ten \o Ten \o Ten \o Ten \o Ten \o Ten \o Ten \o Ten \o Ten

Thousand ==
  Hundred \o Hundred \o Hundred \o Hundred \o Hundred
    \o Hundred \o Hundred \o Hundred \o Hundred \o Hundred

RECURSIVE Filler(_)
Filler(n) ==
  IF n >= 1000 THEN Thousand \o Filler(n - 1000)
  ELSE IF n >= 100 THEN Hundred \o Filler(n - 100)
  ELSE IF n >= 10 THEN Ten \o Filler(n - 10)
  ELSE SubSeq(Ten, 1, n)

\* what a text_delta event may add to the accumulated text: a text as
\* short as the placeholder, one of MIN_CHARS_CHANGE characters, one of
\* MessageLimit characters
StreamDeltas == {Placeholder, Filler(MIN_CHARS_CHANGE), Filler(MessageLimit)}

\* the tools a tool_start event may name: one with an emoji of its own and
\* one without
EventTools == {"bash", "plugin"}

\* the texts runAgent may return on the path without streaming
Responses ==
  {Filler(MIN_CHARS_CHANGE), Filler(MessageLimit), Filler(MessageLimit + 1),
   Filler(2 * MessageLimit), Filler(2 * MessageLimit + 1)}

\* the milliseconds that may pass between two reads of the clock
Elapsed == {100, 400}

\* the clock when the request starts: Date.now() is far above THROTTLE_MS,
\* so the first edit is never throttled
StartTime == 2 * THROTTLE_MS

\* ---------------------------------------------------------- editMessage
\* mutant of textChanged: every text counts as changed
textChangedAlways(newText, last) == TRUE

\* newText !== lastEditedText
textChanged(newText, last) == newText # last

\* newText.length - lastEditedText.length >= MIN_CHARS_CHANGE
significantChange(newText, last) == Len(newText) - Len(last) >= MIN_CHARS_CHANGE

\* mutant of throttleOk: the time since the last edit is not looked at
throttleOkAlways(t, lastTime) == TRUE

\* now - lastEditTime >= THROTTLE_MS
throttleOk(t, lastTime) == t - lastTime >= THROTTLE_MS

\* mutant of ShouldEdit: every changed text is edited in
ShouldEditUngated(newText, force, t, last, lastTime) == textChanged(newText, last)

\* if (textChanged && (force || (throttleOk && significantChange)))
ShouldEdit(newText, force, t, last, lastTime) ==
  /\ textChanged(newText, last)
  /\ force \/ (throttleOk(t, lastTime) /\ significantChange(newText, last))

\* newText.slice(-4000)
TrailingWindow(newText) ==
  SubSeq(newText, Len(newText) - DisplayLimit + 1, Len(newText))

\* mutant of DisplayText: the text is shown whole
DisplayTextWhole(newText) == newText

\* displayText: a text longer than 4000 is cut to its trailing window
\* followed by the marker
DisplayText(newText) ==
  IF Len(newText) > DisplayLimit
    THEN TrailingWindow(newText) \o TruncationMarker
    ELSE newText

\* displayText || "...": the text handed to editMessageText
EditedText(newText) ==
  IF DisplayText(newText) = "" THEN Placeholder ELSE DisplayText(newText)

\* how editMessageText may end: accepted, rejected because the message
\* already shows this text ("message is not modified"), or failed with
\* another error (at most MaxFailures times in a request)
EditOutcomes(shown) ==
  {"ok"} \cup (IF shown = view THEN {"notModified"} ELSE {})
         \cup (IF failures < MaxFailures THEN {"fails"} ELSE {})

\* lastEditTime = now; lastEditedText = newText: the two assignments follow
\* the awaited edit, so they are skipped when it throws
RenderedText(outcome, new, old) == IF outcome = "ok" THEN new ELSE old

\* toolEmojis[event.name] || toolEmojis.default ("%G" and "%W" stand for the
\* gear and the wrench emoji, two UTF-16 code units each)
toolEmojis(name) == IF name = "bash" THEN "%G" ELSE "%W"

\* mutant of ToolIndicator: the indicator does not name the tool
ToolIndicatorAnonymous(name) == "\n\n" \o toolEmojis(name) \o " ..."

\* `\n\n${emoji} _${event.name}_...`
ToolIndicator(name) == "\n\n" \o toolEmojis(name) \o " _" \o name \o "_..."

\* mutant of EditEscapes: a failed edit is thrown on to the caller
EditEscapesOnFailure(outcome) == outcome = "fails"

\* catch (e: any) { ... }: the catch block of editMessage logs (or ignores
\* "not modified") and returns: however editMessageText ends, editMessage
\* does not throw (the transport rejects with Error objects)
EditEscapes(outcome) == FALSE

\* the messages the transport created for this request
CreatedMessages ==
  {i \in 1..Len(sent) : sent[i].kind \in {"placeholder", "reply", "error"}
                           /\ sent[i].outcome = "ok"}

\* the message_id of the message a send creates: one above the ids the chat
\* holds (the user's own message has the first id); none when the send fails
Created(outcome) ==
  IF outcome = "ok" THEN Cardinality(CreatedMessages) + 2 ELSE 0

\* mutant of EditTarget: the edit is addressed to the message after the placeholder
EditTargetsNext(placeholder) == placeholder + 1

\* ctx.api.editMessageText(chatId, messageId, ...): the message an edit
\* addresses is the constant messageId of the placeholder
EditTarget(placeholder) == placeholder

\* what the model records of one editMessage call: the number of the event
\* that made it (the end of the stream counts as one more), its type,
\* the tool the event names, the accumulated text, the text to render, the
\* force flag, the clock, the render state the call found, whether it
\* called editMessageText, how that ended and with which text
EditCall(n, ev, name, base, newText, force, t, issued, outcome) ==
  [n |-> n, event |-> ev, name |-> name, base |-> base, text |-> newText,
   force |-> force, at |-> t, prevText |-> lastEditedText,
   prevTime |-> lastEditTime, issued |-> issued, outcome |-> outcome,
   shown |-> IF issued THEN EditedText(newText) ELSE ""]

\* editMessage(newText, force), called at time t, up to its await (ev, name
\* and base, the accumulated text, are recorded only): the gate is evaluated
\* and, if it opens, editMessageText is called and is in flight
EditMessage(n, ev, name, base, newText, force, t) ==
  IF ShouldEdit(newText, force, t, lastEditedText, lastEditTime)
    THEN /\ sent' = Append(sent, [kind |-> "edit", text |-> EditedText(newText),
                                  id |-> EditTarget(messageId), outcome |-> "pending"])
         /\ pending' = Append(pending, [call |-> Len(editCalls) + 1,
                                        sentAt |-> Len(sent) + 1,
                                        text |-> newText, at |-> t])
         /\ editCalls' = Append(editCalls,
                                EditCall(n, ev, name, base, newText, force, t, TRUE, "pending"))
    ELSE /\ UNCHANGED <<sent, pending>>
         /\ editCalls' = Append(editCalls,
                                EditCall(n, ev, name, base, newText, force, t, FALSE, "none"))

\* where the handler stands after an awaited editMessage call that ended
\* with the given outcome: at next, or in its catch block had the call thrown
AfterEditMessage(outcome, next) ==
  IF EditEscapes(outcome) THEN "catch" ELSE next

\* mutant of AwaitingEdit: the handler goes on while the edit is in flight
AwaitingNothing(p) == FALSE

\* await editMessage(...): the handler is suspended, and takes no event
\* from the stream, while the editMessageText call of editMessage is pending
AwaitingEdit(p) == p # <<>>

\* ------------------------------------------- the events of runAgentStreaming
\* a tool is running: the last tool_start has not been answered by a tool_end
ToolRunning == currentToolIndicator # ""

\* the generator yields text only while the model streams, not while a tool runs
CanEmitTextDelta == ~ToolRunning

\* tools run one at a time
CanEmitToolStart == ~ToolRunning

\* a tool_end answers a tool_start
CanEmitToolEnd == ToolRunning

\* the terminal turn: no tool is running
CanEmitDone == ~ToolRunning

\* a stream event as the model records it
StreamEvent(type, name) == [type |-> type, name |-> name]

\* ------------------------------------------------------ the streaming path
\* a transport call other than an edit is accepted or fails
TransportOutcomes == {"ok"} \cup (IF failures < MaxFailures THEN {"fails"} ELSE {})

\* mutant of ReplyEscapes: a failed ctx.reply is swallowed like a failed edit
ReplySwallowed(outcome) == FALSE

\* await ctx.reply(...) stands in the try block of handleMessage with no try
\* of its own: when the call rejects, control passes to the catch block
ReplyEscapes(outcome) == outcome # "ok"

\* sentMsg = await ctx.reply("..."); stopTyping(); the render state is created
StartStreaming ==
  /\ rpc = "try"
  /\ streaming
  /\ \E o \in TransportOutcomes :
       /\ sent' = Append(sent, [kind |-> "placeholder", text |-> Placeholder,
                                id |-> Created(o), outcome |-> o])
       /\ messageId' = IF ReplyEscapes(o) THEN messageId ELSE Created(o)
       /\ failures' = IF o = "ok" THEN failures ELSE failures + 1
       /\ view' = IF o = "ok" THEN Placeholder ELSE view
       /\ IF ReplyEscapes(o)
            THEN /\ rpc' = "catch"
                 /\ failure' = "transport"
                 /\ UNCHANGED typing
            ELSE /\ typing' = FALSE
                 /\ rpc' = "events"
                 /\ UNCHANGED failure
  /\ lastEditTime' = 0
  /\ lastEditedText' = ""
  /\ fullText' = ""
  /\ currentToolIndicator' = ""
  /\ UNCHANGED <<streaming, pending, now, response, chunkAt, events, editCalls, session>>
  /\ UNCHANGED <<agentVars, storeVars, toolVars>>

\* case "text_delta": fullText = event.accumulated; editMessage(fullText + currentToolIndicator)
OnTextDelta ==
  /\ rpc = "events"
  /\ ~AwaitingEdit(pending)
  /\ Len(events) < MaxEvents
  /\ CanEmitTextDelta
  /\ events' = Append(events, StreamEvent("text_delta", ""))
  /\ \E d \in StreamDeltas, dt \in Elapsed :
       /\ fullText' = fullText \o d
       /\ now' = now + dt
       /\ EditMessage(Len(events) + 1, "text_delta", "", fullText', fullText' \o currentToolIndicator, FALSE, now')
  /\ UNCHANGED rpc
  /\ UNCHANGED <<streaming, messageId, currentToolIndicator, lastEditTime,
                 lastEditedText, view, failures, response, chunkAt, session,
                 typing, failure>>
  /\ UNCHANGED <<agentVars, storeVars, toolVars>>

\* case "tool_start": the indicator is set; editMessage(fullText + currentToolIndicator, true)
OnToolStart ==
  /\ rpc = "events"
  /\ ~AwaitingEdit(pending)
  /\ Len(events) < MaxEvents
  /\ CanEmitToolStart
  /\ \E name \in EventTools, dt \in Elapsed :
       /\ events' = Append(events, StreamEvent("tool_start", name))
       /\ currentToolIndicator' = ToolIndicator(name)
       /\ now' = now + dt
       /\ EditMessage(Len(events) + 1, "tool_start", name, fullText,
                      fullText \o currentToolIndicator', TRUE, now')
  /\ UNCHANGED rpc
  /\ UNCHANGED <<streaming, messageId, fullText, lastEditTime, lastEditedText,
                 view, failures, response, chunkAt, session, typing, failure>>
  /\ UNCHANGED <<agentVars, storeVars, toolVars>>

\* case "tool_end": the indicator is cleared; if (fullText) editMessage(fullText, true)
OnToolEnd ==
  /\ rpc = "events"
  /\ ~AwaitingEdit(pending)
  /\ Len(events) < MaxEvents
  /\ CanEmitToolEnd
  /\ events' = Append(events, StreamEvent("tool_end", ""))
  /\ currentToolIndicator' = ""
  /\ IF fullText # ""
       THEN /\ \E dt \in Elapsed :
                 /\ now' = now + dt
                 /\ EditMessage(Len(events) + 1, "tool_end", "", fullText, fullText, TRUE, now')
       ELSE UNCHANGED <<now, sent, pending, editCalls>>
  /\ UNCHANGED rpc
  /\ UNCHANGED <<streaming, messageId, fullText, lastEditTime, lastEditedText,
                 view, failures, response, chunkAt, session, typing, failure>>
  /\ UNCHANGED <<agentVars, storeVars, toolVars>>

\* case "done": fullText = event.fullText, the accumulated text; the
\* generator returns and the for await loop ends
OnDone ==
  /\ rpc = "events"
  /\ ~AwaitingEdit(pending)
  /\ Len(events) < MaxEvents
  /\ CanEmitDone
  /\ events' = Append(events, StreamEvent("done", ""))
  /\ fullText' = fullText
  /\ rpc' = "final"
  /\ UNCHANGED <<streaming, messageId, pending, currentToolIndicator, lastEditTime, lastEditedText, now,
                 view, response, chunkAt, failures, editCalls, session, typing,
                 sent, failure>>
  /\ UNCHANGED <<agentVars, storeVars, toolVars>>

\* the generator throws (the model or the provider failed): the for await
\* loop throws into the catch block of handleMessage
GeneratorThrows ==
  /\ rpc = "events"
  /\ ~AwaitingEdit(pending)
  /\ rpc' = "catch"
  /\ failure' = "model"
  /\ UNCHANGED <<streaming, messageId, pending, fullText, currentToolIndicator, lastEditTime,
                 lastEditedText, now, view, response, chunkAt, failures, events,
                 editCalls, session, typing, sent>>
  /\ UNCHANGED <<agentVars, storeVars, toolVars>>

\* await editMessage(fullText, true); if (fullText.length > 4096) the
\* overflow path is taken
FinalEdit ==
  /\ rpc = "final"
  /\ ~AwaitingEdit(pending)
  /\ \E dt \in Elapsed :
       /\ now' = now + dt
       /\ EditMessage(Len(events) + 1, "final", "", fullText, fullText, TRUE, now')
  /\ rpc' = IF Len(fullText) > MessageLimit THEN "delete" ELSE "push"
  /\ UNCHANGED <<streaming, messageId, fullText, lastEditTime, lastEditedText,
                 view, failures, currentToolIndicator, response, chunkAt,
                 events, session, typing, failure>>
  /\ UNCHANGED <<agentVars, storeVars, toolVars>>

\* mutant of DeleteEscapes: a failed delete is thrown on to the catch block
DeleteEscapesOnFailure(outcome) == outcome = "fails"

\* try { await ctx.api.deleteMessage(...) } catch (e) { }: the empty catch
\* block swallows whatever the delete call rejects with
DeleteEscapes(outcome) == FALSE

\* try { await ctx.api.deleteMessage(chatId, messageId) } catch (e) {}
DeletePlaceholder ==
  /\ rpc = "delete"
  /\ ~AwaitingEdit(pending)
  /\ \E o \in TransportOutcomes :
       /\ sent' = Append(sent, [kind |-> "delete", text |-> "", id |-> messageId,
                                outcome |-> o])
       /\ view' = IF o = "ok" THEN "" ELSE view
       /\ failures' = IF o = "ok" THEN failures ELSE failures + 1
       /\ rpc' = IF DeleteEscapes(o) THEN "catch" ELSE "chunks"
       /\ failure' = IF DeleteEscapes(o) THEN "transport" ELSE failure
  /\ chunkAt' = 0
  /\ UNCHANGED <<streaming, messageId, pending, fullText, currentToolIndicator, lastEditTime,
                 lastEditedText, now, response, events, editCalls, session, typing>>
  /\ UNCHANGED <<agentVars, storeVars, toolVars>>

\* the sequence without its element at position i
Without(q, i) == SubSeq(q, 1, i - 1) \o SubSeq(q, i + 1, Len(q))

\* the continuation of editMessage after await ctx.api.editMessageText(...):
\* the call is accepted (lastEditTime = now; lastEditedText = newText) or
\* rejects into the catch block of editMessage, which logs and returns
EditSettles ==
  /\ \E i \in 1..Len(pending) :
       LET p == pending[i] IN
         \E o \in EditOutcomes(EditedText(p.text)) :
           /\ sent' = [sent EXCEPT ![p.sentAt].outcome = o]
           /\ lastEditTime' = RenderedText(o, p.at, lastEditTime)
           /\ lastEditedText' = RenderedText(o, p.text, lastEditedText)
           /\ view' = IF o = "ok" THEN EditedText(p.text) ELSE view
           /\ failures' = IF o = "fails" THEN failures + 1 ELSE failures
           /\ editCalls' = [editCalls EXCEPT ![p.call].outcome = o]
           /\ pending' = Without(pending, i)
           /\ rpc' = AfterEditMessage(o, rpc)
  /\ UNCHANGED <<streaming, messageId, fullText, currentToolIndicator, now, response,
                 chunkAt, events, session, typing, failure>>
  /\ UNCHANGED <<agentVars, storeVars, toolVars>>

\* ---------------------------------------------------------- the plain path
\* response = await runAgent(...) is called
StartPlain ==
  /\ rpc = "try"
  /\ ~streaming
  /\ rpc' = "agent"
  /\ UNCHANGED <<streaming, messageId, pending, fullText, currentToolIndicator, lastEditTime,
                 lastEditedText, now, view, response, chunkAt, failures, events,
                 editCalls, session, typing, sent, failure>>
  /\ UNCHANGED <<agentVars, storeVars, toolVars>>

\* runAgent returns: stopTyping(); if (response.length <= 4096) one reply,
\* else the chunk loop
AgentReturns ==
  /\ rpc = "agent"
  /\ \E r \in Responses :
       /\ response' = r
       /\ rpc' = IF Len(r) <= MessageLimit THEN "reply" ELSE "chunks"
  /\ typing' = FALSE
  /\ chunkAt' = 0
  /\ UNCHANGED <<streaming, messageId, pending, fullText, currentToolIndicator, lastEditTime,
                 lastEditedText, now, view, failures, events, editCalls, session,
                 sent, failure>>
  /\ UNCHANGED <<agentVars, storeVars, toolVars>>

\* runAgent throws
AgentThrows ==
  /\ rpc = "agent"
  /\ rpc' = "catch"
  /\ failure' = "model"
  /\ UNCHANGED <<streaming, messageId, pending, fullText, currentToolIndicator, lastEditTime,
                 lastEditedText, now, view, response, chunkAt, failures, events,
                 editCalls, session, typing, sent>>
  /\ UNCHANGED <<agentVars, storeVars, toolVars>>

\* await ctx.reply(response)
SendReply ==
  /\ rpc = "reply"
  /\ \E o \in TransportOutcomes :
       /\ sent' = Append(sent, [kind |-> "reply", text |-> response, id |-> Created(o),
                                outcome |-> o])
       /\ rpc' = IF ReplyEscapes(o) THEN "catch" ELSE "push"
       /\ failures' = IF o = "ok" THEN failures ELSE failures + 1
       /\ failure' = IF ReplyEscapes(o) THEN "transport" ELSE failure
  /\ UNCHANGED <<streaming, messageId, pending, fullText, currentToolIndicator, lastEditTime,
                 lastEditedText, now, view, response, chunkAt, events, editCalls,
                 session, typing>>
  /\ UNCHANGED <<agentVars, storeVars, toolVars>>

\* ------------------------------------------------- chunks, push and catch
\* the text the chunk loop cuts and the assistant message carries: fullText
\* on the streaming path, response on the plain path
Answer == IF streaming THEN fullText ELSE response

\* s.slice(i, j), i and j counted from 0
Slice(str, i, j) ==
  SubSeq(str, i + 1, IF j < Len(str) THEN j ELSE Len(str))

\* mutant of NextChunk: the loop steps one character too far
NextChunkSkips(i) == i + MessageLimit + 1

\* i += 4096
NextChunk(i) == i + MessageLimit

\* mutant of ChunksLeft: the chunk loop is left after its first chunk
ChunksLeftNever(i, str) == FALSE

\* i < text.length: the chunk loop has another chunk to send
ChunksLeft(i, str) == i < Len(str)

\* for (let i = 0; i < text.length; i += 4096) await ctx.reply(text.slice(i, i + 4096))
SendChunk ==
  /\ rpc = "chunks"
  /\ chunkAt < Len(Answer)   \* the loop is entered with i = 0 on a longer text
  /\ \E o \in TransportOutcomes :
       /\ sent' = Append(sent, [kind |-> "reply",
                                text |-> Slice(Answer, chunkAt, chunkAt + MessageLimit),
                                id |-> Created(o), outcome |-> o])
       /\ failures' = IF o = "ok" THEN failures ELSE failures + 1
       /\ IF ReplyEscapes(o)
            THEN /\ rpc' = "catch"
                 /\ failure' = "transport"
                 /\ chunkAt' = chunkAt
            ELSE /\ chunkAt' = NextChunk(chunkAt)
                 /\ rpc' = IF ChunksLeft(chunkAt', Answer) THEN "chunks" ELSE "push"
                 /\ UNCHANGED failure
  /\ UNCHANGED <<streaming, messageId, pending, fullText, currentToolIndicator, lastEditTime,
                 lastEditedText, now, view, response, events, editCalls, session,
                 typing>>
  /\ UNCHANGED <<agentVars, storeVars, toolVars>>

\* response = fullText (streaming); session.messages.push(assistantMsg)
PushAssistantMsg ==
  /\ rpc = "push"
  /\ ~AwaitingEdit(pending)
  /\ response' = Answer
  /\ session' = Append(session, AssistantMsg(Answer))
  /\ rpc' = "done"
  /\ UNCHANGED <<streaming, messageId, pending, fullText, currentToolIndicator, lastEditTime,
                 lastEditedText, now, view, chunkAt, failures, events, editCalls,
                 typing, sent, failure>>
  /\ UNCHANGED <<agentVars, storeVars, toolVars>>

\* catch (err): stopTyping(); await ctx.reply(`Error: ...`); if that reply
\* fails too, handleMessage rejects
RenderCatch ==
  /\ rpc = "catch"
  /\ typing' = FALSE
  /\ \E o \in TransportOutcomes :
       /\ sent' = Append(sent, [kind |-> "error", text |-> "Error", id |-> Created(o),
                                outcome |-> o])
       /\ rpc' = IF o = "ok" THEN "failed" ELSE "crashed"
       /\ failures' = IF o = "ok" THEN failures ELSE failures + 1
  /\ UNCHANGED <<streaming, messageId, pending, fullText, currentToolIndicator, lastEditTime,
                 lastEditedText, now, view, response, chunkAt, events, editCalls,
                 session, failure>>
  /\ UNCHANGED <<agentVars, storeVars, toolVars>>

\* ---------------------------------------------------------------- system
\* the request has reached its try block: the typing interval runs, the
\* user message is pushed; config.streaming is either value
RenderInit ==
  /\ pc = "idle"
  /\ context = <<>>
  /\ turnCount = 0
  /\ text = ""
  /\ toolCalls = <<>>
  /\ tcIdx = 1
  /\ inflight = {}
  /\ retval = ""
  /\ nextId = 1
  /\ deltasSeen = 0
  /\ hpc = "agent"
  /\ session = <<UserMsg(1)>>
  /\ typing = TRUE
  /\ sent = <<>>
  /\ reqCount = 1
  /\ turnDeltas = <<>>
  /\ turnCtx = <<>>
  /\ execLog = <<>>
  /\ outLog = <<>>
  /\ openStreams = 0
  /\ callerMsgs = <<>>
  /\ reqSession = <<>>
  /\ failure = "none"
  /\ streaming \in BOOLEAN
  /\ rpc = "try"
  /\ fullText = ""
  /\ currentToolIndicator = ""
  /\ lastEditTime = 0
  /\ lastEditedText = ""
  /\ now = StartTime
  /\ view = ""
  /\ response = ""
  /\ chunkAt = 0
  /\ failures = 0
  /\ messageId = 0
  /\ pending = <<>>
  /\ events = <<>>
  /\ editCalls = <<>>
  /\ StoreIdle
  /\ ToolsIdle

RenderNext ==
  \/ StartStreaming
  \/ OnTextDelta
  \/ OnToolStart
  \/ OnToolEnd
  \/ OnDone
  \/ GeneratorThrows
  \/ FinalEdit
  \/ DeletePlaceholder
  \/ EditSettles
  \/ StartPlain
  \/ AgentReturns
  \/ AgentThrows
  \/ SendReply
  \/ SendChunk
  \/ PushAssistantMsg
  \/ RenderCatch

RenderSpec == RenderInit /\ [][RenderNext]_vars

\* ------------------------------------------------- properties (delivery)
\* the render state editMessage call k left behind (no other step changes it)
PostText(k) == IF k < Len(editCalls) THEN editCalls[k + 1].prevText ELSE lastEditedText

PostTime(k) == IF k < Len(editCalls) THEN editCalls[k + 1].prevTime ELSE lastEditTime

\* the editMessageText calls of the request, as the transport saw them
TransportEdits == SelectSeq(sent, LAMBDA c : c.kind = "edit")

\* the editMessage calls of the request that called editMessageText
IssuedCalls == SelectSeq(editCalls, LAMBDA c : c.issued)

\* C12: an editMessage call whose text equals the last rendered text calls
\* editMessageText not at all, forced or not; so a text rendered by one call
\* and handed in again by the next costs one transport edit. (Every
\* transport edit belongs to a call that asked for it.)
C12_SameTextNotReissued ==
  /\ Len(TransportEdits) = Len(IssuedCalls)
  /\ \A k \in 1..Len(editCalls) :
       /\ editCalls[k].text = editCalls[k].prevText => ~editCalls[k].issued
       /\ ( /\ k > 1
            /\ editCalls[k - 1].issued
            /\ editCalls[k - 1].outcome = "ok"
            /\ editCalls[k].text = editCalls[k - 1].text ) => ~editCalls[k].issued

\* C12 witness: a forced call is handed the text the call before it rendered
C12_Witness ==
  \E k \in 2..Len(editCalls) :
    /\ editCalls[k].force
    /\ editCalls[k].text # ""
    /\ editCalls[k].text = editCalls[k - 1].text
    /\ editCalls[k - 1].outcome = "ok"
    /\ ~editCalls[k].issued

\* the stream has ended with its done event and the final editMessage call
\* has been made
StreamOver ==
  /\ events # <<>>
  /\ events[Len(events)].type = "done"
  /\ rpc # "final"

\* an unforced call that comes within the throttle interval of the last edit
\* with a text less than the minimum change longer than the rendered one
ThrottledSmall(c) ==
  /\ c.event = "text_delta"
  /\ c.at - c.prevTime < THROTTLE_MS
  /\ Len(c.text) - Len(c.prevText) < MIN_CHARS_CHANGE

\* the editMessage calls made for the end of the stream
FinalCalls == SelectSeq(editCalls, LAMBDA c : c.event = "final")

\* C13 as claimed: throttled small deltas produce no transport edit, and
\* the end of the stream always produces exactly one forced transport edit
\* that carries the complete text.
C13_ThrottleLaw ==
  /\ \A k \in 1..Len(editCalls) : ThrottledSmall(editCalls[k]) => ~editCalls[k].issued
  /\ StreamOver =>
       /\ Len(FinalCalls) = 1
       /\ FinalCalls[1].issued
       /\ FinalCalls[1].shown = fullText

\* C13 amended: throttled small deltas produce no transport edit; the end of
\* the stream makes exactly one forced editMessage call with the complete
\* text, the last call of the request, which calls editMessageText if and
\* only if the complete text differs from the last rendered text, and then
\* with the complete text itself when that is non-empty and no longer than
\* the display limit.
C13_ThrottleLawAmended ==
  /\ \A k \in 1..Len(editCalls) : ThrottledSmall(editCalls[k]) => ~editCalls[k].issued
  /\ StreamOver =>
       /\ Len(FinalCalls) = 1
       /\ editCalls[Len(editCalls)] = FinalCalls[1]
       /\ FinalCalls[1].force
       /\ FinalCalls[1].text = fullText
       /\ FinalCalls[1].issued <=> fullText # FinalCalls[1].prevText
       /\ (FinalCalls[1].issued /\ Len(fullText) \in 1..DisplayLimit) =>
            FinalCalls[1].shown = fullText
       /\ (FinalCalls[1].issued /\ FinalCalls[1].outcome = "ok") =>
            lastEditedText = fullText

\* C13 witness: a delta is rendered, the next one is throttled and small
\* and produces no edit, and the end of the stream edits the complete text in
C13_Witness ==
  /\ StreamOver
  /\ Len(editCalls) = 3
  /\ editCalls[1].event = "text_delta" /\ editCalls[1].outcome = "ok"
  /\ ThrottledSmall(editCalls[2]) /\ ~editCalls[2].issued
  /\ editCalls[3].issued /\ editCalls[3].outcome = "ok"
  /\ view = fullText

\* C14: the calls made for text deltas are the unforced ones; an unforced
\* call calls editMessageText only if its text differs from the last
\* rendered text, the clock is at least the throttle interval past the last
\* edit, and the text is at least the minimum change longer than the last
\* rendered text; a call that issues no edit leaves the render state as it
\* found it.
C14_UnforcedEditGate ==
  \A k \in 1..Len(editCalls) :
    /\ ~editCalls[k].force <=> editCalls[k].event = "text_delta"
    /\ ~editCalls[k].force =>
         /\ editCalls[k].issued =>
              /\ editCalls[k].text # editCalls[k].prevText
              /\ editCalls[k].at - editCalls[k].prevTime >= THROTTLE_MS
              /\ Len(editCalls[k].text) >= Len(editCalls[k].prevText) + MIN_CHARS_CHANGE
         /\ ~editCalls[k].issued =>
              /\ PostText(k) = editCalls[k].prevText
              /\ PostTime(k) = editCalls[k].prevTime

\* C14 witness: after a rendered delta, a delta is held back and the next
\* one, late and long enough, is edited in
C14_Witness ==
  /\ Len(editCalls) = 3
  /\ \A k \in 1..3 : ~editCalls[k].force
  /\ editCalls[1].outcome = "ok"
  /\ ~editCalls[2].issued
  /\ editCalls[3].issued
  /\ editCalls[3].prevTime = editCalls[1].at
  /\ editCalls[3].outcome = "ok"

\* the last stream event consumed is of the given type and the renderer has
\* dealt with it
LastEventIs(type) ==
  /\ rpc = "events"
  /\ pending = <<>>
  /\ events # <<>>
  /\ events[Len(events)].type = type

\* C15: once a tool_end event is dealt with (and no transport call of the
\* request failed), the placeholder message shows the plain accumulated text
\* (the placeholder text while nothing is accumulated), without a tool
\* indicator. (The claim; the code breaks it when the accumulated text is
\* empty.)
C15_NoResidualIndicator ==
  (LastEventIs("tool_end") /\ failures = 0) => view = EditedText(fullText)

\* the tool_start events consumed, and the editMessage calls made for them
ToolStartEvents == SelectSeq(events, LAMBDA e : e.type = "tool_start")

ToolStartCalls == SelectSeq(editCalls, LAMBDA c : c.event = "tool_start")

\* the accumulated text of a call followed by the indicator of its tool
WithIndicator(c) == c.base \o "\n\n" \o toolEmojis(c.name) \o " _" \o c.name \o "_..."

\* C16 as claimed: every tool_start event produces a transport edit at
\* once, and the edited text is the accumulated text followed by an
\* indicator that names the tool (read with the size policy: for texts no
\* longer than the display limit).
C16_ToolStartAlwaysEdits ==
  /\ Len(ToolStartCalls) = Len(ToolStartEvents)
  /\ \A k \in 1..Len(ToolStartCalls) :
       /\ ToolStartCalls[k].name = ToolStartEvents[k].name
       /\ ToolStartCalls[k].issued
       /\ Len(ToolStartCalls[k].text) <= DisplayLimit =>
            ToolStartCalls[k].shown = WithIndicator(ToolStartCalls[k])

\* C16 amended: every tool_start event makes one forced editMessage call
\* with the accumulated text followed by an indicator that names the tool;
\* the call calls editMessageText, whatever the clock and the change in
\* length, if and only if that text differs from the last rendered text, and
\* an issued edit carries that text when it is no longer than the display
\* limit.
C16_ToolStartForcesEdit ==
  /\ Len(ToolStartCalls) = Len(ToolStartEvents)
  /\ \A k \in 1..Len(ToolStartCalls) :
       /\ ToolStartCalls[k].name = ToolStartEvents[k].name
       /\ ToolStartCalls[k].force
       /\ ToolStartCalls[k].text = WithIndicator(ToolStartCalls[k])
       /\ ToolStartCalls[k].issued <=> ToolStartCalls[k].text # ToolStartCalls[k].prevText
       /\ (ToolStartCalls[k].issued /\ Len(ToolStartCalls[k].text) <= DisplayLimit) =>
            ToolStartCalls[k].shown = ToolStartCalls[k].text

\* C16 witness: a tool_start comes within the throttle interval of the last
\* edit and adds less than the minimum change, and is edited in at once
C16_Witness ==
  /\ LastEventIs("tool_start")
  /\ LET c == editCalls[Len(editCalls)] IN
       /\ c.event = "tool_start"
       /\ c.prevText # ""
       /\ c.at - c.prevTime < THROTTLE_MS
       /\ Len(c.text) - Len(c.prevText) < MIN_CHARS_CHANGE
       /\ c.issued
       /\ c.outcome = "ok"
       /\ view = c.base \o "\n\n%G _bash_..."

\* the messages sent anew to the chat with ctx.reply and accepted, in order
\* (the placeholder and the error notice are not among them)
Replies == SelectSeq(sent, LAMBDA c : c.kind = "reply" /\ c.outcome = "ok")

\* C17: when a streaming request has ended with a non-empty final text no
\* longer than the message limit and the transport accepted the final edit,
\* the placeholder message is the only message of the answer and shows
\* exactly the final text. (The claim; the code breaks it for texts longer
\* than the display limit.)
C17_FinalTextRenderedWhole ==
  ( /\ streaming
    /\ StreamOver
    /\ Len(fullText) \in 1..MessageLimit
    /\ FinalCalls[1].issued
    /\ FinalCalls[1].outcome = "ok" ) =>
      /\ view = fullText
      /\ Replies = <<>>

\* the texts of the accepted replies, in the order they were sent
ReplyTexts == [i \in 1..Len(Replies) |-> Replies[i].text]

\* ceil(n / m)
CeilDiv(n, m) == (n + m - 1) \div m

\* C18: on both paths, the replies sent for an answer longer than the message
\* limit are, in order, consecutive pieces of the answer from its start,
\* each no longer than the limit; once the chunk loop is over they are
\* ceil(L / M) messages whose concatenation is the answer.
C18_OverflowChunks ==
  Len(Answer) > MessageLimit =>
    /\ \A i \in 1..Len(ReplyTexts) : Len(ReplyTexts[i]) \in 1..MessageLimit
    /\ Len(Concat(ReplyTexts)) <= Len(Answer)
    /\ Concat(ReplyTexts) = SubSeq(Answer, 1, Len(Concat(ReplyTexts)))
    /\ rpc \in {"push", "done"} =>
         /\ Len(ReplyTexts) = CeilDiv(Len(Answer), MessageLimit)
         /\ Concat(ReplyTexts) = Answer

\* C18 witness: a streamed answer three characters longer than the limit
\* has been delivered as two messages, the second of three characters
C18_Witness ==
  /\ streaming
  /\ rpc = "done"
  /\ Len(fullText) = MessageLimit + 3
  /\ Len(Replies) = 2
  /\ Len(Replies[2].text) = 3
  /\ session[Len(session)].text = fullText

\* C19: every text handed to editMessageText is at most MessageLimit
\* characters long; a call whose text is longer than the display limit hands
\* over the last DisplayLimit characters of it followed by the marker, any
\* other call its text unchanged (the placeholder text for the empty text);
\* the transport saw exactly these texts, in this order.
C19_EditWithinLimit ==
  /\ \A i \in 1..Len(TransportEdits) : Len(TransportEdits[i].text) <= MessageLimit
  /\ Len(TransportEdits) = Len(IssuedCalls)
  /\ \A k \in 1..Len(IssuedCalls) :
       LET c == IssuedCalls[k] IN
         /\ k <= Len(TransportEdits) => TransportEdits[k].text = c.shown
         /\ Len(c.text) > 4000 =>
              c.shown = SubSeq(c.text, Len(c.text) - 3999, Len(c.text))
                          \o "\n\n[...truncated]"
         /\ Len(c.text) \in 1..4000 => c.shown = c.text
         /\ c.text = "" => c.shown = "..."

\* C19 witness: a text longer than the message limit has been edited in, cut
C19_Witness ==
  \E k \in 1..Len(TransportEdits) :
    /\ TransportEdits[k].outcome = "ok"
    /\ Len(IssuedCalls[k].text) > MessageLimit
    /\ Len(TransportEdits[k].text) = DisplayLimit + Len(TruncationMarker)
    /\ view = TransportEdits[k].text

\* C20: an editMessageText call that fails (or reports "not modified")
\* leaves the last rendered text and the last edit time as the call found
\* them; the handler enters its catch block only after a failure of the
\* model or of a transport call other than an edit, so a failed edit aborts
\* neither the event loop nor the request; and a request that ends outside
\* the catch block has appended the assistant message with the answer to
\* the session.
C20_EditFailureSwallowed ==
  /\ \A k \in 1..Len(editCalls) :
       (editCalls[k].issued /\ editCalls[k].outcome # "ok") =>
         /\ PostText(k) = editCalls[k].prevText
         /\ PostTime(k) = editCalls[k].prevTime
  /\ rpc \in {"catch", "failed", "crashed"} => failure \in {"model", "transport"}
  /\ failure = "transport" =>
       \E i \in 1..Len(sent) : sent[i].kind # "edit" /\ sent[i].outcome = "fails"
  /\ rpc = "done" => session = <<UserMsg(1), AssistantMsg(Answer)>>

\* C20 witness: the edit for the first event failed, the renderer edited a
\* later text in, and the request ended with the assistant message appended
C20_Witness ==
  /\ streaming
  /\ rpc = "done"
  /\ Len(editCalls) >= 3
  /\ editCalls[1].outcome = "fails"
  /\ editCalls[2].issued /\ editCalls[2].outcome = "ok"
  /\ editCalls[2].prevText = ""
  /\ session[Len(session)] = AssistantMsg(fullText)
  /\ view = fullText

\* ---------------------------------------------------------------- C21
\* the transport calls of the request that failed, by kind
FailedCalls(kinds) ==
  {i \in 1..Len(sent) : sent[i].kind \in kinds /\ sent[i].outcome = "fails"}

\* the request is on its error path: in the catch block of handleMessage or
\* past it
OnErrorPath == rpc \in {"catch", "failed", "crashed"}

\* C21 as claimed: any transport call of the request that fails (an edit, the
\* placeholder, a delete, a reply or chunk) puts the request on its error path
C21_AnyTransportFailureEscalates ==
  FailedCalls({"placeholder", "edit", "delete", "reply"}) # {} => OnErrorPath

\* C21 amended: a failed send (the placeholder, the reply, a chunk) is
\* escalated: the request is on its error path with the failure recorded as a
\* transport failure, the next and last transport call is the error notice
\* and no assistant message is appended; a failed edit or a failed delete
\* alone is not escalated, and a request that left the catch block has
\* issued the error notice as its last call
C21_SendFailureEscalates ==
  /\ \A i \in FailedCalls({"placeholder", "reply"}) :
       /\ OnErrorPath
       /\ failure = "transport"
       /\ session = <<UserMsg(1)>>
       /\ i < Len(sent) => (i + 1 = Len(sent) /\ sent[i + 1].kind = "error")
       /\ rpc = "catch" <=> i = Len(sent)
  /\ rpc \in {"failed", "crashed"} => sent[Len(sent)].kind = "error"
  /\ (FailedCalls({"placeholder", "reply"}) = {} /\ failure = "none") => ~OnErrorPath

\* an overflow chunk failed after the placeholder was deleted and the user
\* got the error notice
C21_Witness ==
  /\ rpc = "failed"
  /\ streaming
  /\ Len(sent) >= 3
  /\ sent[Len(sent) - 2].kind = "delete"
  /\ sent[Len(sent) - 1].kind = "reply"
  /\ sent[Len(sent) - 1].outcome = "fails"
  /\ sent[Len(sent)].outcome = "ok"

\* ---------------------------------------------------------------- C22
\* C22: when the delete of the placeholder fails during overflow delivery
\* the request is not aborted: as long as no chunk fails it stays on the
\* chunk loop and its continuation, the chunks sent so far are the full
\* text up to the position of the loop, in order, the whole text once the
\* loop is over, and the request ends with the assistant message appended
C22_DeleteIsBestEffort ==
  (FailedCalls({"delete"}) # {} /\ FailedCalls({"reply"}) = {}) =>
    /\ rpc \in {"chunks", "push", "done"}
    /\ failure = "none"
    /\ Len(fullText) > MessageLimit
    /\ Concat(ReplyTexts) = Slice(fullText, 0, chunkAt)
    /\ rpc \in {"push", "done"} => Concat(ReplyTexts) = fullText
    /\ rpc = "done" => session = <<UserMsg(1), AssistantMsg(fullText)>>

\* the delete failed and the request ended with every chunk sent
C22_Witness ==
  /\ rpc = "done"
  /\ FailedCalls({"delete"}) # {}
  /\ Len(Replies) = 2

\* ---------------------------------------------------------------- C23
\* the placeholder messages the request created
Placeholders == SelectSeq(sent, LAMBDA c : c.kind = "placeholder")

\* the positions of sent at which the placeholder was deleted
Deletions == {i \in 1..Len(sent) : sent[i].kind = "delete" /\ sent[i].outcome = "ok"}

\* C23: a streaming request creates exactly one placeholder message (a
\* plain request none), as its first transport call; every transport edit
\* of the request carries the message id of that placeholder; and no edit is
\* issued after the overflow handling deleted the placeholder
C23_OnePlaceholderAllEditsTargetIt ==
  /\ Len(Placeholders) = (IF streaming /\ rpc # "try" THEN 1 ELSE 0)
  /\ Len(Placeholders) = 1 => sent[1].kind = "placeholder"
  /\ Len(TransportEdits) > 0 =>
       /\ sent[1].outcome = "ok"
       /\ messageId = sent[1].id
       /\ messageId > 0
  /\ \A k \in 1..Len(TransportEdits) : TransportEdits[k].id = sent[1].id
  /\ \A i \in Deletions :
       /\ sent[i].id = sent[1].id
       /\ \A j \in (i + 1)..Len(sent) : sent[j].kind # "edit"

\* the request edited its placeholder twice, deleted it and sent a chunk
C23_Witness ==
  /\ Len(TransportEdits) >= 2
  /\ Deletions # {}
  /\ Len(Replies) >= 1

\* ---------------------------------------------------------------- C24
\* the editMessageText calls in flight, as positions of editCalls
PendingCalls == {pending[i].call : i \in 1..Len(pending)}

\* C24: at most one transport edit is in flight; while it is, it is the
\* last transport call issued and the last editMessage call made, and no
\* event has been taken from the stream after the one that made it; every
\* other editMessage call has settled; the calls are made in the order of
\* the events (the call for the end of the stream last), and the transport
\* saw the issued edits in that order
C24_EventsOneAtATime ==
  /\ Len(pending) <= 1
  /\ \A i \in 1..Len(pending) :
       /\ pending[i].call = Len(editCalls)
       /\ pending[i].sentAt = Len(sent)
       /\ editCalls[pending[i].call].n >= Len(events)
  /\ \A k \in 1..Len(editCalls) :
       /\ editCalls[k].outcome = "pending" <=> k \in PendingCalls
       /\ editCalls[k].n <= Len(events) + 1
       /\ \A l \in (k + 1)..Len(editCalls) : editCalls[k].n < editCalls[l].n
  /\ Len(TransportEdits) = Len(IssuedCalls)
  /\ \A k \in 1..Len(TransportEdits) :
       /\ TransportEdits[k].text = IssuedCalls[k].shown
       /\ TransportEdits[k].outcome = IssuedCalls[k].outcome

\* the edit for the first event has settled and the edit for the second
\* event is in flight
C24_Witness ==
  /\ Len(events) = 2
  /\ Len(editCalls) = 2
  /\ editCalls[1].n = 1 /\ editCalls[1].outcome = "ok"
  /\ editCalls[2].n = 2
  /\ PendingCalls = {2}
  /\ rpc = "events"

\* ------------------------------------------------------------------------
\* The session store (src/src/sessions.ts), the commands and the handlers of
\* all users (src/src/index.ts), the model selection (agent.ts).
\* SessionSpec: the updates of the allowed users are dispatched one after
\* the other; timers (the eviction sweep) run whenever a handler awaits.

MaxUpdates == 3      \* updates dispatched
MaxTicks == 1        \* times the clock is advanced

\* const SESSION_TIMEOUT = 30 * 60 * 1000
SESSION_TIMEOUT == 30 * 60 * 1000

\* how long the clock is advanced in one step: just past the timeout
Waits == {SESSION_TIMEOUT + 1}

\* the kinds of update: a text message, the /clear and the /model command
UpdateKinds == {"message", "clear", "model"}

\* the model ids a /model command may name
ModelIds == {DefaultModelId, "gpt-4o"}

\* the provider a /model command names together with the model id
ProviderOf(m) == IF m = DefaultModelId THEN DefaultProvider ELSE "openai"

\* the identity fields of an assistant message: none before it is built
NoStamp == [api |-> "", provider |-> "", model |-> ""]

\* assistantMsg: api: "anthropic", provider: "anthropic",
\* model: getModelInfo().modelId, read when the message is built
Stamp(selected) == [api |-> "anthropic", provider |-> "anthropic", model |-> selected]

\* the variables of one request, which no step of SessionSpec changes
requestVars == <<agentVars, session, typing, sent, failure, renderVars>>

\* the assistant message of the turn of update k
ResponseOf(k) == AssistantMsg("r" \o ToString(k))

\* mutant of CanDispatch: updates are handled concurrently
CanDispatchAlways(hs) == TRUE

\* bot.start(): the long polling of grammY hands the updates to the
\* middleware one after the other, each after the handler of the one before
\* it has returned
CanDispatch(hs) == \A k \in 1..Len(hs) : hs[k].pos = "done"

\* getSession: the object sessions.get(userId) returns, or the one a first
\* call creates
SessionOf(map, objects, userId) ==
  IF map[userId] # 0 THEN map[userId] ELSE Len(objects) + 1

\* getSession: session = { messages: [], lastActivity: Date.now() } if there
\* is none; session.lastActivity = Date.now()
getSession(map, objects, userId, t) ==
  IF map[userId] # 0
    THEN [objects EXCEPT ![map[userId]].lastActivity = t]
    ELSE Append(objects, [messages |-> <<>>, lastActivity |-> t])

\* mutant of clearSession: the entry is still there when the command is answered
clearSessionDeferred(map, userId) == map

\* clearSession: sessions.delete(userId), done when the call returns (no
\* pre-clear hook is installed: onBeforeClear has no caller)
clearSession(map, userId) == [map EXCEPT ![userId] = 0]

\* mutant of push: the message is put in front
pushFront(messages, m) == <<m>> \o messages

\* session.messages.push(m)
push(messages, m) == Append(messages, m)

\* session.messages.push(assistantMsg): session is the local of
\* handleMessage, the object getSession returned at the start of the request
TurnTarget(held, current) == held

\* now - session.lastActivity > SESSION_TIMEOUT
Expired(t, lastActivity) == t - lastActivity > SESSION_TIMEOUT

\* the model a turn runs on: getModel(currentProvider, currentModelId), read
\* when the run starts
getModel(selected) == selected

\* mutant of Allowed: the middleware lets every sender through
AllowedAlways(userId) == TRUE

\* the auth middleware: !(!userId || !ALLOWED_USER_IDS.has(userId))
Allowed(userId) == userId \in Users

\* bot.use: an update passes the auth middleware first; that of an allowed
\* user reaches its handler (await next()), any other is answered with
\* "Unauthorized." and the middleware returns
Dispatch ==
  /\ CanDispatch(handlers)
  /\ Len(handlers) < MaxUpdates
  /\ \E u \in Senders, kind \in UpdateKinds :
       handlers' = Append(handlers, [user |-> u, kind |-> kind,
                                     pos |-> IF Allowed(u) THEN "start" ELSE "denied",
                                     obj |-> 0, provider |-> "", model |-> "",
                                     ok |-> FALSE, detached |-> FALSE,
                                     stamp |-> NoStamp, reply |-> ""])
  /\ UNCHANGED <<sessions, heap, clock, currentModelId, currentProvider>>
  /\ UNCHANGED <<requestVars, toolVars>>

\* await ctx.reply("Unauthorized.") has settled; return
Unauthorized ==
  /\ \E k \in 1..Len(handlers) :
       /\ handlers[k].pos = "denied"
       /\ handlers' = [handlers EXCEPT ![k].pos = "done", ![k].reply = "Unauthorized."]
  /\ UNCHANGED <<sessions, heap, clock, currentModelId, currentProvider>>
  /\ UNCHANGED <<requestVars, toolVars>>

\* handleMessage of a text message: const session = getSession(userId);
\* session.messages.push(userMsg)
BeginTurn ==
  /\ \E k \in 1..Len(handlers) :
       LET u == handlers[k].user
           o == SessionOf(sessions, heap, u)
           got == getSession(sessions, heap, u, clock)
       IN /\ handlers[k].kind = "message"
          /\ handlers[k].pos = "start"
          /\ sessions' = [sessions EXCEPT ![u] = o]
          /\ heap' = [got EXCEPT ![o].messages = push(@, UserMsg(k))]
          /\ handlers' = [handlers EXCEPT ![k].pos = "pushed", ![k].obj = o]
  /\ UNCHANGED <<clock, currentModelId, currentProvider>>
  /\ UNCHANGED <<requestVars, toolVars>>

\* the run starts: const model = getModel(currentProvider, currentModelId)
InvokeModel ==
  /\ \E k \in 1..Len(handlers) :
       /\ handlers[k].pos = "pushed"
       /\ handlers' = [handlers EXCEPT ![k].pos = "running",
                                       ![k].provider = getModel(currentProvider),
                                       ![k].model = getModel(currentModelId)]
  /\ UNCHANGED <<sessions, heap, clock, currentModelId, currentProvider>>
  /\ UNCHANGED <<requestVars, toolVars>>

\* the answer is delivered: session.messages.push(assistantMsg)
EndTurn ==
  /\ \E k \in 1..Len(handlers) :
       LET u == handlers[k].user
           target == TurnTarget(handlers[k].obj, sessions[u])
       IN /\ handlers[k].pos = "running"
          /\ heap' = [heap EXCEPT ![target].messages = push(@, ResponseOf(k))]
          /\ handlers' = [handlers EXCEPT ![k].pos = "done", ![k].ok = TRUE,
                                          ![k].detached = (sessions[u] # handlers[k].obj),
                                          ![k].stamp = Stamp(currentModelId)]
  /\ UNCHANGED <<sessions, clock, currentModelId, currentProvider>>
  /\ UNCHANGED <<requestVars, toolVars>>

\* the run or the delivery fails: the catch block, no assistant message
TurnFails ==
  /\ \E k \in 1..Len(handlers) :
       /\ handlers[k].pos = "running"
       /\ handlers' = [handlers EXCEPT ![k].pos = "done",
                         ![k].detached = (sessions[handlers[k].user] # handlers[k].obj)]
  /\ UNCHANGED <<sessions, heap, clock, currentModelId, currentProvider>>
  /\ UNCHANGED <<requestVars, toolVars>>

\* bot.command("clear"): clearSession(ctx.from.id); the reply is on its way
ClearCommand ==
  /\ \E k \in 1..Len(handlers) :
       /\ handlers[k].kind = "clear"
       /\ handlers[k].pos = "start"
       /\ sessions' = clearSession(sessions, handlers[k].user)
       /\ handlers' = [handlers EXCEPT ![k].pos = "replying"]
  /\ UNCHANGED <<heap, clock, currentModelId, currentProvider>>
  /\ UNCHANGED <<requestVars, toolVars>>

\* await ctx.reply("Session cleared.") has settled
ClearAnswered ==
  /\ \E k \in 1..Len(handlers) :
       /\ handlers[k].pos = "replying"
       /\ handlers' = [handlers EXCEPT ![k].pos = "done", ![k].ok = TRUE,
                                       ![k].reply = "Session cleared."]
  /\ UNCHANGED <<sessions, heap, clock, currentModelId, currentProvider>>
  /\ UNCHANGED <<requestVars, toolVars>>

\* bot.command("model") with a provider and a model id: setModel(...)
ModelCommand ==
  /\ \E k \in 1..Len(handlers), m \in ModelIds :
       /\ handlers[k].kind = "model"
       /\ handlers[k].pos = "start"
       /\ currentModelId' = m
       /\ currentProvider' = ProviderOf(m)
       /\ handlers' = [handlers EXCEPT ![k].pos = "done", ![k].ok = TRUE, ![k].model = m]
  /\ UNCHANGED <<sessions, heap, clock>>
  /\ UNCHANGED <<requestVars, toolVars>>

\* the callback of setInterval: every session idle for longer than the
\* timeout is deleted from the Map
Sweep ==
  /\ sessions' = [u \in Senders |->
                    IF sessions[u] # 0 /\ Expired(clock, heap[sessions[u]].lastActivity)
                      THEN 0 ELSE sessions[u]]
  /\ UNCHANGED <<heap, clock, currentModelId, currentProvider, handlers>>
  /\ UNCHANGED <<requestVars, toolVars>>

\* time passes (while a handler awaits, or between updates)
TimePasses ==
  /\ \E d \in Waits :
       /\ clock + d <= MaxTicks * (SESSION_TIMEOUT + 1)
       /\ clock' = clock + d
  /\ UNCHANGED <<sessions, heap, currentModelId, currentProvider, handlers>>
  /\ UNCHANGED <<requestVars, toolVars>>

SessionNext ==
  \/ Dispatch
  \/ Unauthorized
  \/ BeginTurn
  \/ InvokeModel
  \/ EndTurn
  \/ TurnFails
  \/ ClearCommand
  \/ ClearAnswered
  \/ ModelCommand
  \/ Sweep
  \/ TimePasses

SessionSpec == Init /\ [][SessionNext]_vars

\* ------------------------------------------------- properties (sessions)
\* a is a prefix of b
IsPrefix(a, b) == Len(a) <= Len(b) /\ SubSeq(b, 1, Len(a)) = a

\* C25: every step leaves the history of every session object as it was or
\* longer at its end (no message is edited, removed or reordered); the entry
\* of a user changes only by a reset or eviction (the entry is deleted) or
\* by the creation of a new, empty session object, so between two of these
\* the user's history at an earlier state is a prefix of it at a later one
C25_HistoryAppendOnly ==
  [][ /\ Len(heap') >= Len(heap)
      /\ \A o \in 1..Len(heap) : IsPrefix(heap[o].messages, heap'[o].messages)
      /\ \A u \in Users :
           sessions'[u] # sessions[u] =>
             \/ sessions'[u] = 0
             \/ /\ sessions[u] = 0
                /\ sessions'[u] = Len(heap) + 1
                /\ Len(heap'[sessions'[u]].messages) <= 1 ]_vars

\* a session went through two turns: it holds three messages or more
C25_Witness ==
  \E u \in Users :
    /\ sessions[u] # 0
    /\ Len(heap[sessions[u]].messages) >= 3

\* the turn of update k is in flight: the user message is appended, the
\* assistant message is not yet
InFlight(k) ==
  /\ handlers[k].kind = "message"
  /\ handlers[k].pos \in {"pushed", "running"}

\* C26: while the turn of a user is in flight, the Map holds the session
\* object the turn works on: the sweep has not deleted it. (The claim; the
\* code breaks it for a turn that lasts longer than the timeout.)
C26_NoEvictionInFlight ==
  \A k \in 1..Len(handlers) :
    InFlight(k) => sessions[handlers[k].user] = handlers[k].obj

\* the updates whose turn is in flight
TurnsInFlight == {k \in 1..Len(handlers) : InFlight(k)}

\* the last message of a history (of a non-empty one)
LastOf(messages) == messages[Len(messages)]

\* C27: at most one turn is in flight on a session object at a time, and
\* nothing is appended to the object between the two appends of a turn:
\* while the turn is in flight its user message is the last message of the
\* history, and when it has succeeded its assistant message follows its user
\* message directly
C27_OneWriterPerSession ==
  /\ \A k, l \in TurnsInFlight : handlers[k].obj = handlers[l].obj => k = l
  /\ \A k \in TurnsInFlight : LastOf(heap[handlers[k].obj].messages) = UserMsg(k)
  /\ \A k \in 1..Len(handlers) :
       (handlers[k].kind = "message" /\ handlers[k].pos = "done" /\ handlers[k].ok) =>
         \E i \in 1..(Len(heap[handlers[k].obj].messages) - 1) :
           /\ heap[handlers[k].obj].messages[i] = UserMsg(k)
           /\ heap[handlers[k].obj].messages[i + 1] = ResponseOf(k)

\* the second message of a user is in flight on the session that holds the
\* first exchange
C27_Witness ==
  \E k \in TurnsInFlight :
    /\ Len(heap[handlers[k].obj].messages) = 3
    /\ handlers[k].pos = "running"

\* the turns that succeeded: the assistant message was pushed
TurnsDone ==
  {k \in 1..Len(handlers) :
     handlers[k].kind = "message" /\ handlers[k].pos = "done" /\ handlers[k].ok}

\* the message is in the history
Holds(messages, m) == \E i \in 1..Len(messages) : messages[i] = m

\* C28: the response of a turn whose session was removed from the Map while
\* the turn was in flight is in the session the user has after the removal.
\* (The claim; in the code the response goes to the removed object, and the
\* removal in flight is the eviction of C26.)
C28_ResponseInFreshSession ==
  \A k \in TurnsDone :
    handlers[k].detached =>
      /\ sessions[handlers[k].user] # 0
      /\ Holds(heap[sessions[handlers[k].user]].messages, ResponseOf(k))

\* the update of the same user handled last before update k (0: none)
PrevOf(k) ==
  LET earlier == {j \in 1..(k - 1) : handlers[j].user = handlers[k].user}
  IN IF earlier = {} THEN 0 ELSE CHOOSE j \in earlier : \A i \in earlier : i <= j

\* update k is the last update of its user so far
LatestOfUser(k) ==
  \A l \in (k + 1)..Len(handlers) : handlers[l].user # handlers[k].user

\* update k is a message that directly follows a /clear of the same user
AfterClear(k) ==
  /\ handlers[k].kind = "message"
  /\ PrevOf(k) # 0
  /\ handlers[PrevOf(k)].kind = "clear"

\* C29: once the /clear of a user is answered, the user has no session until
\* their next message; that message is processed against a history that
\* holds the new message only, on a session object no earlier turn has
\* worked on, and what the turn appends stays the user's session (nothing
\* deletes it later, the sweep of an expired session apart)
C29_ClearLeavesNothing ==
  \A k \in 1..Len(handlers) :
    /\ ( /\ handlers[k].kind = "clear"
         /\ handlers[k].pos \in {"replying", "done"}
         /\ LatestOfUser(k) ) => sessions[handlers[k].user] = 0
    /\ (AfterClear(k) /\ InFlight(k)) =>
         /\ heap[handlers[k].obj].messages = <<UserMsg(k)>>
         /\ \A j \in 1..(k - 1) : handlers[j].obj # handlers[k].obj
    /\ (AfterClear(k) /\ k \in TurnsDone) =>
         /\ SubSeq(heap[handlers[k].obj].messages, 1, 2) = <<UserMsg(k), ResponseOf(k)>>
    /\ (AfterClear(k) /\ handlers[k].pos # "start" /\ LatestOfUser(k)) =>
         \/ sessions[handlers[k].user] = handlers[k].obj
         \/ Expired(clock, heap[handlers[k].obj].lastActivity)

\* a user had an exchange, cleared the session, was answered, and their next
\* message is in flight on a history of one message
C29_Witness ==
  /\ Len(handlers) = 3
  /\ 1 \in TurnsDone
  /\ handlers[2].kind = "clear" /\ handlers[2].pos = "done"
  /\ handlers[2].user = handlers[1].user
  /\ handlers[3].user = handlers[1].user
  /\ InFlight(3)
  /\ heap[handlers[3].obj].messages = <<UserMsg(3)>>
  /\ Len(heap[handlers[1].obj].messages) = 2

\* the /model commands of the user of update k handled before it
OwnModelCommands(k) ==
  {j \in 1..(k - 1) : /\ handlers[j].user = handlers[k].user
                      /\ handlers[j].kind = "model"
                      /\ handlers[j].pos = "done"}

\* the model the user of update k has selected when update k is handled: the
\* one of their last /model command, the model of the environment without one
OwnModel(k) ==
  IF OwnModelCommands(k) = {} THEN DefaultModelId
  ELSE handlers[CHOOSE j \in OwnModelCommands(k) :
                  \A i \in OwnModelCommands(k) : i <= j].model

\* the history of every user holds messages of that user's turns only
HistoriesSeparate ==
  \A u \in Users :
    sessions[u] # 0 =>
      \A i \in 1..Len(heap[sessions[u]].messages) :
        \E k \in 1..Len(handlers) :
          /\ handlers[k].user = u
          /\ heap[sessions[u]].messages[i] \in {UserMsg(k), ResponseOf(k)}

\* the model of every turn is the one its own user selected
ModelsSeparate ==
  \A k \in 1..Len(handlers) :
    (handlers[k].kind = "message" /\ handlers[k].pos \in {"running", "done"}
       /\ handlers[k].model # "") =>
      handlers[k].model = OwnModel(k)

\* C30: users are independent: a user's history holds nothing of another
\* user's turns, and the model a user's turn runs on is determined by that
\* user's own commands. (The claim; the code breaks the second half.)
C30_UsersIndependent == HistoriesSeparate /\ ModelsSeparate

\* C31: the assistant message of every turn that succeeded records the
\* model id and the provider the run of that turn was started with. (The
\* claim; the code records the provider "anthropic" whatever runs.)
C31_MessageRecordsItsModel ==
  \A k \in TurnsDone :
    /\ handlers[k].stamp.model = handlers[k].model
    /\ handlers[k].stamp.provider = handlers[k].provider

\* the updates sent by someone who is not on the allow-list
Refused == {k \in 1..Len(handlers) : handlers[k].user \notin Users}

\* C32: an update of a sender who is not on the allow-list never gets past
\* the middleware: no handler runs for it (no session object, no model, no
\* assistant message), and once the middleware has returned it has been
\* answered with "Unauthorized."; such a sender has no session, every
\* message of every history belongs to the turn of an allowed user, and the
\* model selection is the initial one or that of an allowed user's command
C32_StrangersChangeNothing ==
  /\ \A k \in Refused :
       /\ handlers[k].pos \in {"denied", "done"}
       /\ handlers[k].obj = 0
       /\ handlers[k].model = "" /\ handlers[k].provider = ""
       /\ handlers[k].stamp = NoStamp
       /\ ~handlers[k].ok
       /\ handlers[k].pos = "done" <=> handlers[k].reply = "Unauthorized."
  /\ \A u \in Strangers : sessions[u] = 0
  /\ \A o \in 1..Len(heap) : \A i \in 1..Len(heap[o].messages) :
       \E k \in 1..Len(handlers) :
         /\ handlers[k].user \in Users
         /\ handlers[k].obj = o
         /\ heap[o].messages[i] \in {UserMsg(k), ResponseOf(k)}
  /\ \/ currentModelId = DefaultModelId /\ currentProvider = DefaultProvider
     \/ \E k \in 1..Len(handlers) :
          /\ handlers[k].user \in Users
          /\ handlers[k].kind = "model"
          /\ handlers[k].model = currentModelId

\* the message, the /clear and the /model of a stranger were all refused
\* while nothing was created
C32_Witness ==
  /\ Len(handlers) = 3
  /\ \A k \in 1..3 : k \in Refused /\ handlers[k].pos = "done"
  /\ {handlers[k].kind : k \in 1..3} = UpdateKinds
  /\ heap = <<>>

\* ------------------------------------------------- termination of runAgent
\* the run with the scheduling of the code: every await of runAgent is
\* resumed once what it waits for has settled (the provider's stream is
\* drained to its end, s.result() resolves, a started execute settles), and
\* the synchronous steps between two awaits run to the next await
LiveSpec ==
  /\ Init
  /\ [][Next]_vars
  /\ WF_vars(TurnStart)
  /\ WF_vars(StreamEnd)
  /\ WF_vars(PushAssistant)
  /\ WF_vars(ToolUnknown \/ ToolInvalid \/ ToolExecute)
  /\ WF_vars(ExecuteSettles)
  /\ WF_vars(ToolsDone)

\* the assistant messages the current run pushed to its working history
RunAssistants ==
  {j \in (Len(callerMsgs) + 1)..Len(context) : context[j].role = "assistant"}

\* the run could not go on: the provider failed, or reading the thrown
\* value of a tool failed
RunThrew == pc = "threw"

\* C33: if every model invocation and every tool execution completes and some
\* turn contains no tool call, runAgent eventually returns, and it returns at
\* the first such turn without invoking the model again: a turn that is under
\* way reaches its end, a turn that ended without tool calls leads to the
\* return, the tool calls of a turn lead to the next turn; and at the return
\* the last of the run's assistant messages is the only one without tool
\* calls, with as many model invocations as assistant messages.
C33_ReturnsAtFirstTerminalTurn ==
  /\ [](pc = "returned" =>
          /\ RunAssistants # {}
          /\ \A j \in RunAssistants :
               IsTerminalTurn(context[j].toolCalls) <=> j = Len(context)
          /\ turnCount = Cardinality(RunAssistants)
          /\ openStreams = 0)
  /\ [](pc \in {"tools", "exec"} => toolCalls # <<>>)
  /\ (pc = "stream") ~> (pc = "result" \/ RunThrew)
  /\ (pc = "result" /\ toolCalls = <<>>) ~> (pc = "returned" \/ RunThrew)
  /\ (pc = "result" /\ toolCalls # <<>>) ~> (pc = "loop" \/ RunThrew)

\* C33 witness: the run returned at its second turn, the first one having
\* called tools
C33_Witness ==
  /\ pc = "returned"
  /\ Cardinality(RunAssistants) = 2
  /\ \E j \in RunAssistants : context[j].toolCalls # <<>>

\* ---------------------------------------------------------------- C34
\* the delivery of the answer is complete: no edit is in flight, the final
\* edit of a streamed answer has been made, the replies sent are the whole
\* answer (one reply, or the chunks of a long answer; none for a streamed
\* answer that fits the placeholder) and no send has failed
Delivered ==
  /\ pending = <<>>
  /\ \A i \in 1..Len(sent) : sent[i].outcome # "pending"
  /\ streaming => Len(FinalCalls) = 1
  /\ (streaming /\ Len(Answer) <= MessageLimit) => Replies = <<>>
  /\ (~streaming /\ Len(Answer) <= MessageLimit) => ReplyTexts = <<Answer>>
  /\ Len(Answer) > MessageLimit => Concat(ReplyTexts) = Answer
  /\ FailedCalls({"placeholder", "reply"}) = {}

\* the assistant messages of the session
SessionAssistants == SelectSeq(session, LAMBDA m : m.role = "assistant")

\* C34: a request appends at most one assistant message to the session, and
\* only after all transport delivery of the request (final edit, overflow
\* chunks, reply or reply chunks) has completed: the step that changes the
\* session appends the one assistant message with the answer to a session
\* without one, with the delivery complete, and no transport call follows
\* it; once a send has failed no assistant message is ever appended, also
\* when the answer had been computed.
C34_AssistantAfterDelivery ==
  /\ [][session' # session =>
          /\ Delivered
          /\ SessionAssistants = <<>>
          /\ session' = Append(session, AssistantMsg(Answer))]_vars
  /\ [][SessionAssistants # <<>> => sent' = sent]_vars
  /\ [](Len(SessionAssistants) <= 1)
  /\ [](FailedCalls({"placeholder", "reply"}) # {} => SessionAssistants = <<>>)

\* C34 witness: the plain path computed an answer longer than the limit, its
\* first chunk was delivered, the second one failed, and the request ended
\* on its error path with only the user message in the session
C34_Witness ==
  /\ ~streaming
  /\ rpc \in {"failed", "crashed"}
  /\ Len(response) > MessageLimit
  /\ Len(Replies) = 1
  /\ FailedCalls({"reply"}) # {}
  /\ session = <<UserMsg(1)>>

\* ---------------------------------------------------------------- C35
\* C35: with the requests of a user handled one at a time, the session holds
\* only user and assistant messages, none of them with tool calls (no
\* toolResult and no tool-calling assistant message of a run), and every
\* assistant message stands right after the user message of the request
\* that produced it: the session changes only by the push of the user
\* message of the new request or by the push of the answer of the current
\* request right after that request's user message.
C35_SessionHoldsQuestionsAndAnswers ==
  /\ [](\A i \in 1..Len(session) :
          /\ session[i].role \in {"user", "assistant"}
          /\ session[i].toolCalls = <<>>
          /\ session[i].role = "assistant" =>
               /\ i > 1
               /\ session[i - 1].role = "user")
  /\ [][session' # session =>
          \/ session' = Append(session, UserMsg(reqCount'))
          \/ /\ session' = Append(session, AssistantMsg(retval))
             /\ reqCount' = reqCount
             /\ session[Len(session)] = UserMsg(reqCount)]_vars

\* C35 witness: the request ended with its answer right after its question,
\* while the reply with that answer is the only transport call of the request
C35_Witness ==
  /\ hpc = "idle"
  /\ reqCount = 1
  /\ Len(session) = 2
  /\ session[1] = UserMsg(1)
  /\ session[2].role = "assistant"
  /\ session[2].text # ""
  /\ Len(sent) = 1

\* ---------------------------------------------------------------- C36
\* C36: once handleMessage has finished, by returning or by rejecting, the
\* typing interval of the request no longer runs. (The claim; the code
\* breaks it when a step between setInterval and the try block throws.)
C36_TypingStoppedOnExit == hpc \in {"idle", "crashed"} => ~typing

\* ======================================================= cron tools (CronSpec)
\* create_cron and delete_cron of createCronTools, with the job table, the
\* Map of tasks and the tasks node-cron runs.

\* ---------------------------------------------------------------- bounds
MaxCrons == 4        \* create_cron calls

\* a CronJob object: its id and, to tell the objects apart, its serial
CronJob(id, no) == [id |-> id, no |-> no, enabled |-> TRUE]

\* jobs.findIndex((j) => j.id === params.id), positions counted from 1 and 0
\* for "not found"
findIndex(js, id) ==
  IF \E i \in 1..Len(js) : js[i].id = id
    THEN CHOOSE i \in 1..Len(js) :
           /\ js[i].id = id
           /\ \A j \in 1..(i - 1) : js[j].id # id
    ELSE 0

\* create_cron with a schedule cron.validate rejects: nothing changes
CreateCronInvalid ==
  /\ cronCalls < MaxCrons
  /\ cronCalls' = cronCalls + 1
  /\ UNCHANGED <<jobs, scheduledTasks, running, cronsFile>>
  /\ UNCHANGED <<requestVars, storeVars, memVars>>

\* create_cron: the job gets the id drawn by Math.random, is pushed to the
\* table, the table is saved and scheduleJob starts a task for the job:
\* cron.schedule(...) runs a new task, scheduledTasks.set(job.id, task)
\* replaces whatever entry the id had
CreateCron ==
  /\ cronCalls < MaxCrons
  /\ cronCalls' = cronCalls + 1
  /\ \E id \in Ids :
       LET job == CronJob(id, cronCalls + 1) IN
         /\ jobs' = Append(jobs, job)
         /\ cronsFile' = jobs'
         /\ running' = running \cup {job.no}
         /\ scheduledTasks' = [scheduledTasks EXCEPT ![id] = job.no]
  /\ UNCHANGED <<requestVars, storeVars, memVars>>

\* delete_cron with an id no job of the table has: nothing changes
DeleteCronNotFound ==
  /\ \E id \in Ids : findIndex(jobs, id) = 0
  /\ UNCHANGED vars

\* delete_cron: the first job with the id is found; the task the Map holds
\* for the id, if any, is stopped and its entry deleted; the job is spliced
\* out of the table and the table is saved
DeleteCron ==
  /\ \E id \in Ids :
       LET idx == findIndex(jobs, id)
           task == scheduledTasks[id]
       IN /\ idx # 0
          /\ running' = IF task # 0 THEN running \ {task} ELSE running
          /\ scheduledTasks' = [scheduledTasks EXCEPT ![id] = 0]
          /\ jobs' = Without(jobs, idx)
          /\ cronsFile' = jobs'
  /\ UNCHANGED cronCalls
  /\ UNCHANGED <<requestVars, storeVars, memVars>>

CronNext ==
  \/ CreateCronInvalid
  \/ CreateCron
  \/ DeleteCronNotFound
  \/ DeleteCron

CronSpec == Init /\ [][CronNext]_vars

\* ---------------------------------------------------------------- C37
\* C37: after any sequence of create_cron and delete_cron operations the
\* running tasks correspond one to one to the jobs of the table: the ids of
\* the table are unique, the running tasks are exactly the tasks of the jobs
\* of the table, and the Map holds for every job of the table that job's
\* task. (The claim; the code breaks it when Math.random yields an id that
\* the table already has.)
C37_TasksMatchJobTable ==
  /\ \A i, j \in 1..Len(jobs) : jobs[i].id = jobs[j].id => i = j
  /\ running = {jobs[i].no : i \in 1..Len(jobs)}
  /\ \A i \in 1..Len(jobs) : scheduledTasks[jobs[i].id] = jobs[i].no

\* =================================================== memory tools (MemorySpec)
\* save_memory of createMemoryTools and loadMemories, with the memory file of
\* each user. execute of save_memory is an async function without an await:
\* a call runs its body to the end before anything else runs, and the caller
\* resumes later, when the promise it awaits has settled.

\* ---------------------------------------------------------------- bounds
MaxSaves == 3        \* save_memory executions

\* params.content of a save_memory call
MemContents == {"x", "y"}

\* new Date().toISOString()
toISOString(t) == "T" \o ToString(t)

\* const entry = `\n## ${timestamp}\n${params.content}\n`
MemoryEntry(t, content) == "\n## " \o toISOString(t) \o "\n" \o content \o "\n"

\* mutant of readExisting: the file is written without what it held
readExistingNothing(file) == ""

\* let existing = ""; try { existing = readFileSync(path, "utf-8") } catch {}
\* (the same in loadMemories: the content, "" when the file is missing)
readExisting(file) == IF file.exists THEN file.text ELSE ""

\* writeFileSync(path, data): the file exists and holds data
writeFileSync(data) == [exists |-> TRUE, text |-> data]

\* loadMemories(userId), called by handleMessage for the system prompt
LoadMemories ==
  /\ \E u \in Users :
       memories' = [memories EXCEPT ![u] = readExisting(memFiles[u])]
  /\ memoryDir' = TRUE
  /\ UNCHANGED <<memFiles, saving, wallClock, saveLog>>
  /\ UNCHANGED <<requestVars, storeVars, cronVars>>

\* a caller calls execute of save_memory: ensureMemoryDir, the entry with
\* the time of the call, the content of the file read and written back with
\* the entry behind it; the caller then awaits the returned promise
SaveMemory ==
  /\ Len(saveLog) < MaxSaves
  /\ \E p \in MemCallers, content \in MemContents, t \in {wallClock, wallClock + 1} :
       LET u == CallerUser(p)
           entry == MemoryEntry(t, content)
           existing == readExisting(memFiles[u])
       IN /\ saving[p] = "idle"
          /\ wallClock' = t
          /\ memFiles' = [memFiles EXCEPT ![u] = writeFileSync(existing \o entry)]
          /\ saveLog' = Append(saveLog, [caller |-> p, user |-> u, entry |-> entry])
          /\ saving' = [saving EXCEPT ![p] = "awaiting"]
  /\ memoryDir' = TRUE
  /\ UNCHANGED memories
  /\ UNCHANGED <<requestVars, storeVars, cronVars>>

\* the run that awaited execute resumes with "Memory saved."
SaveSettles ==
  /\ \E p \in MemCallers :
       /\ saving[p] = "awaiting"
       /\ saving' = [saving EXCEPT ![p] = "idle"]
  /\ UNCHANGED <<memoryDir, memFiles, memories, wallClock, saveLog>>
  /\ UNCHANGED <<requestVars, storeVars, cronVars>>

MemoryNext ==
  \/ LoadMemories
  \/ SaveMemory
  \/ SaveSettles

MemorySpec == Init /\ [][MemoryNext]_vars

\* ---------------------------------------------------------------- C38
\* the entries the executions for user u saved, in the order they ran
SavedEntries(u) ==
  LET own == SelectSeq(saveLog, LAMBDA e : e.user = u)
  IN [i \in 1..Len(own) |-> own[i].entry]

\* C38: save_memory only appends: after any interleaving of save_memory
\* executions the memory file of a user holds exactly the entries saved for
\* that user, each once, in the order the executions ran; every step leaves
\* what a file held as a prefix of what it holds (no lost update); and a
\* file changes only in an execution for its own user.
C38_SaveMemoryAppends ==
  /\ [](\A u \in Users :
          /\ memFiles[u].text = Concat(SavedEntries(u))
          /\ memFiles[u].exists <=> SavedEntries(u) # <<>>)
  /\ [][\A u \in Users :
          /\ IsPrefix(memFiles[u].text, memFiles'[u].text)
          /\ memFiles'[u] # memFiles[u] =>
               /\ Len(saveLog') = Len(saveLog) + 1
               /\ saveLog'[Len(saveLog')].user = u]_vars

\* C38 witness: the request and a cron run of user 1 both await a save while
\* user 2 has saved too; the file of user 1 holds two different entries
C38_Witness ==
  /\ saving["chat1"] = "awaiting"
  /\ saving["cron1"] = "awaiting"
  /\ Len(SavedEntries(1)) = 2
  /\ SavedEntries(1)[1] # SavedEntries(1)[2]
  /\ Len(SavedEntries(2)) = 1
  /\ memories[1] # "" /\ memories[1] # memFiles[1].text

====
